---- MODULE Spec2Model ----
(***************************************************************************)
(* penmit: provider/model resolution, the persistence decision and the     *)
(* accept / regenerate / edit loop of run(), as a state machine.           *)
(*                                                                         *)
(* Text (keys, model names, commit messages) is a sequence of one-char     *)
(* strings, so that String.prototype.trim is computed, not assumed.        *)
(* An optional value is Undefined (<<>>) or Def(v) (<<v>>); an optional    *)
(* enumeration (provider, ollamaMode) uses the string "undefined".         *)
(***************************************************************************)
EXTENDS Integers, Sequences, FiniteSets, TLC

\* ------------------------------------------------------------------ bounds
\* regenerate choices followed in one run
MaxRegen == 2
\* length of the texts typed into the edit dialog / returned by a provider
MaxLen == 2

\* ------------------------------------------------------- optional values
Undefined == <<>>

Def(v) == <<v>>

\* JS truthiness of an optional string: defined and not ''
Truthy(o) == o # Undefined /\ o[1] # <<>>

NoEnum == "undefined"

\* ------------------------------------------------------------------ text
RECURSIVE TrimStart(_)
TrimStart(s) ==
  IF s = <<>> THEN s
  ELSE IF Head(s) = " " THEN TrimStart(Tail(s)) ELSE s

RECURSIVE TrimEnd(_)
TrimEnd(s) ==
  IF s = <<>> THEN s
  ELSE IF s[Len(s)] = " " THEN TrimEnd(SubSeq(s, 1, Len(s) - 1)) ELSE s

\* String.prototype.trim
Trim(s) == TrimEnd(TrimStart(s))

\* all texts over alphabet A of length 0..n
TextsUpTo(A, n) == UNION {[1..k -> A] : k \in 0..n}

\* ------------------------------------------------------------- constants
DEFAULT_CLOUD_MODEL == <<"d">>

ANTHROPIC_MODELS == << <<"s">>, <<"h">>, <<"o">> >>

ANTHROPIC_CUSTOM_MODEL == <<"_">>

OPENAI_MODELS == << <<"x">>, <<"g">>, <<"i">> >>

OPENAI_CUSTOM_MODEL == <<"_">>

\* values of the provider picker, in menu order
ProviderItems == <<"ollama-local", "ollama-cloud", "anthropic", "openai">>

\* ------------------------------------------------------------ key events
\* most up and down keypresses followed at one menu
MaxMoves == 3

\* no up or down keypress handled yet
NoMoves == [up |-> 0, down |-> 0]

K(n) == [name |-> n, ctrl |-> FALSE]

CtrlC == [name |-> "c", ctrl |-> TRUE]

\* the falsy key argument of a keypress event
NullKey == [name |-> "null", ctrl |-> FALSE]

NoKey == [name |-> "none", ctrl |-> FALSE]

\* key?.name?.toLowerCase()
ToLower(n) ==
  CASE n = "A" -> "a"
    [] n = "R" -> "r"
    [] n = "E" -> "e"
    [] n = "C" -> "c"
    [] OTHER -> n

IsCancelKey(k) == k = K("escape") \/ k = CtrlC

\* keys delivered to the accept/regenerate/edit prompt
PromptKeys ==
  {K("a"), K("A"), K("r"), K("R"), K("e"), K("E"), K("return"),
   K("escape"), CtrlC, K("c"), K("z"), NullKey}

\* keys delivered to a menu
MenuKeys == {K("up"), K("down"), K("return"), K("escape"), CtrlC, K("z"), NullKey}

\* ------------------------------------------------------------ input sets
Providers == {"ollama", "anthropic", "openai"}

Modes == {"local", "cloud"}

\* ParsedArgs: the provider flag sets provider and ollamaMode together
FlagChoices ==
  { [provider |-> NoEnum, ollamaMode |-> NoEnum],
    [provider |-> "ollama", ollamaMode |-> "local"],
    [provider |-> "ollama", ollamaMode |-> "cloud"],
    [provider |-> "anthropic", ollamaMode |-> NoEnum],
    [provider |-> "openai", ollamaMode |-> NoEnum] }

ArgsSet ==
  { [provider |-> f.provider, ollamaMode |-> f.ollamaMode, model |-> m, setup |-> s] :
      f \in FlagChoices, m \in {Undefined, Def(<<"f">>)}, s \in BOOLEAN }

\* a credential variable is unset, set to "", set to a blank, or set to a
\* padded key
EnvVals == {Undefined, Def(<<>>), Def(<<" ">>), Def(<<"e", " ">>)}

EnvSet ==
  [ANTHROPIC_API_KEY : EnvVals, OPENAI_API_KEY : {Undefined, Def(<<"e", " ">>)},
   OLLAMA_API_KEY : {Undefined, Def(<<"e", " ">>)}]

\* contents of the preference file: any partial record
SavedSet ==
  [provider : Providers \cup {NoEnum}, ollamaMode : Modes \cup {NoEnum},
   model : {Undefined, Def(<<"p">>), Def(<<"z">>)},
   apiKey : {Undefined, Def(<<"k">>)}]

EmptyConfig ==
  [provider |-> NoEnum, ollamaMode |-> NoEnum, model |-> Undefined, apiKey |-> Undefined]

\* what the preference file can hold: nothing (no file), text that is not
\* JSON, the JSON text null, a JSON number, string or array, a JSON object
FileContents == {"missing", "notJSON", "null", "scalar", "object"}

\* stands for the value null where a settings record is expected; reading a
\* field of it raises TypeError, so the fields below are never used as values
NullConfig ==
  [provider |-> "null", ollamaMode |-> "null", model |-> Undefined, apiKey |-> Undefined]

\* what GET /api/tags can list, in the order returned
Inventories == { <<>>, << <<"p">> >>, << <<"q">>, <<"p">> >> }

\* answers typed at a free-text prompt (before trimming)
Answers == { <<>>, <<" ">>, <<" ", "t">> }

VARIABLES
  pc,                      \* position of run()
  args, env, isTTY,        \* inputs of the run
  file,                    \* what the preference file holds: see FileContents
  store,                   \* the settings object in the preference file
  savedConfig,             \* run(): const savedConfig = readUserConfig()
  provider, ollamaMode, providerFromInteractive,
  apiKey,
  model, modelFromInteractive,
  models,                  \* resolveOllamaModel: what getLocalModels returned,
                           \* Undefined until it has returned
  menu, selected,          \* selectFromList: items (values) and selected index
  moves,                   \* selectFromList: up and down keypresses handled so far
  term,                    \* stdin: the keypress listener installed, raw mode, paused
  message,                 \* run(): let message
  lastKey,                 \* the last key event delivered to a prompt
  lastGen,                 \* result of the most recent successful generate()
  submitted,               \* editMessage: the line submitted in the edit dialog
  entered,                 \* promptInput: the last line answered, before trim()
  calls,                   \* number of calls of each collaborator in this run
  commitArg,               \* argument of the last runCommit
  commitStatus,            \* what the last runCommit returned
  written,                 \* argument of the last writeUserConfig
  exitCode,                \* argument of process.exit, Undefined while none
  errLines                 \* the console.error calls, in order

vars ==
  << pc, args, env, isTTY, file, store, savedConfig, provider, ollamaMode,
     providerFromInteractive, apiKey, model, modelFromInteractive, models,
     menu, selected, moves, term, message, lastKey, lastGen, submitted, entered, calls, commitArg,
     commitStatus, written, exitCode, errLines >>

NoCalls ==
  [read |-> 0, write |-> 0, select |-> 0, input |-> 0, inventory |-> 0,
   diff |-> 0, generate |-> 0, promptUser |-> 0, regenerate |-> 0, edit |-> 0,
   commit |-> 0]

Bump(c, f) == [c EXCEPT ![f] = @ + 1]


\* variable groups, for UNCHANGED
inputV == << args, env, isTTY, file >>

providerV == << provider, ollamaMode, providerFromInteractive >>

modelV == << model, modelFromInteractive >>

menuV == << menu, selected, moves, term >>

genV == << message, lastGen, submitted, commitArg, commitStatus >>

loopV == << genV, entered >>

\* --------------------------------------------------------- process exit
\* process.exit(code)
Exit(code) == pc' = "exited" /\ exitCode' = Def(code)

\* an error line: its text and, where the text names one, the environment
\* variable it names
Err(text, envVarName) == [text |-> text, envVarName |-> envVarName]

\* Fail where the process exits with 2
Fail_exitsTwo(e) == Exit(2) /\ errLines' = Append(errLines, e)

\* console.error(e) followed by process.exit(1)
Fail(e) == Exit(1) /\ errLines' = Append(errLines, e)

\* cancel(): console.log("\nCancelled."); process.exit(0)
cancel == Exit(0) /\ errLines' = errLines

\* ---------------------------------------------------------- terminal
\* stdin of a fresh process: no keypress listener, cooked mode, paused
TermIdle == [listener |-> "none", raw |-> FALSE, paused |-> TRUE]

\* selectFromList on a terminal: setRawMode(true); resume(); on('keypress')
selectOpen(t) == [listener |-> "selectFromList", raw |-> TRUE, paused |-> FALSE]

\* selectFromList.cleanup: removeListener; setRawMode(false); pause()
selectCleanup(t) == [listener |-> "none", raw |-> FALSE, paused |-> TRUE]

\* promptUser: resume(); if (isTTY) setRawMode(true); on('keypress')
promptOpen(t) ==
  [listener |-> "promptUser", raw |-> IF isTTY THEN TRUE ELSE t.raw, paused |-> FALSE]

\* cleanup that leaves the listener installed
cleanup_keepsListener(t) ==
  [listener |-> t.listener, raw |-> IF isTTY THEN FALSE ELSE t.raw, paused |-> TRUE]

\* promptUser.cleanup: removeListener; if (isTTY) setRawMode(false); pause()
cleanup(t) ==
  [listener |-> "none", raw |-> IF isTTY THEN FALSE ELSE t.raw, paused |-> TRUE]

\* ------------------------------------------------------ resolveProvider
\* resolveProvider with the saved provider consulted before the environment
resolveProvider_savedFirst(a, saved, e) ==
  IF a.provider # NoEnum
    THEN [picker |-> FALSE, provider |-> a.provider, ollamaMode |-> a.ollamaMode,
          fromInteractive |-> FALSE]
  ELSE IF saved.provider # NoEnum /\ ~a.setup
    THEN [picker |-> FALSE, provider |-> saved.provider, ollamaMode |-> saved.ollamaMode,
          fromInteractive |-> FALSE]
  ELSE IF Truthy(e.ANTHROPIC_API_KEY)
    THEN [picker |-> FALSE, provider |-> "anthropic", ollamaMode |-> NoEnum,
          fromInteractive |-> FALSE]
  ELSE IF Truthy(e.OPENAI_API_KEY)
    THEN [picker |-> FALSE, provider |-> "openai", ollamaMode |-> NoEnum,
          fromInteractive |-> FALSE]
  ELSE IF Truthy(e.OLLAMA_API_KEY)
    THEN [picker |-> FALSE, provider |-> "ollama", ollamaMode |-> "cloud",
          fromInteractive |-> FALSE]
  ELSE [picker |-> TRUE, provider |-> NoEnum, ollamaMode |-> NoEnum,
        fromInteractive |-> TRUE]

\* the branches of resolveProvider that need no prompt; picker |-> TRUE
\* when control reaches selectFromList
resolveProvider(a, saved, e) ==
  IF a.provider # NoEnum
    THEN [picker |-> FALSE, provider |-> a.provider, ollamaMode |-> a.ollamaMode,
          fromInteractive |-> FALSE]
  ELSE IF Truthy(e.ANTHROPIC_API_KEY)
    THEN [picker |-> FALSE, provider |-> "anthropic", ollamaMode |-> NoEnum,
          fromInteractive |-> FALSE]
  ELSE IF Truthy(e.OPENAI_API_KEY)
    THEN [picker |-> FALSE, provider |-> "openai", ollamaMode |-> NoEnum,
          fromInteractive |-> FALSE]
  ELSE IF Truthy(e.OLLAMA_API_KEY)
    THEN [picker |-> FALSE, provider |-> "ollama", ollamaMode |-> "cloud",
          fromInteractive |-> FALSE]
  ELSE IF saved.provider # NoEnum /\ ~a.setup
    THEN [picker |-> FALSE, provider |-> saved.provider, ollamaMode |-> saved.ollamaMode,
          fromInteractive |-> FALSE]
  ELSE [picker |-> TRUE, provider |-> NoEnum, ollamaMode |-> NoEnum,
        fromInteractive |-> TRUE]

\* the result built from the picker's choice
PickerResult(choice) ==
  IF choice = "anthropic"
    THEN [provider |-> "anthropic", ollamaMode |-> NoEnum, fromInteractive |-> TRUE]
  ELSE IF choice = "openai"
    THEN [provider |-> "openai", ollamaMode |-> NoEnum, fromInteractive |-> TRUE]
  ELSE IF choice = "ollama-cloud"
    THEN [provider |-> "ollama", ollamaMode |-> "cloud", fromInteractive |-> TRUE]
  ELSE [provider |-> "ollama", ollamaMode |-> "local", fromInteractive |-> TRUE]

\* ProviderResolved where the run goes on to the model step at once
ProviderResolved_skipsKey(r) ==
  /\ provider' = r.provider
  /\ ollamaMode' = r.ollamaMode
  /\ providerFromInteractive' = r.fromInteractive
  /\ pc' = "resolveModel"

\* run(): provider = result.provider; ollamaMode = ...; providerFromInteractive = ...
ProviderResolved(r) ==
  /\ provider' = r.provider
  /\ ollamaMode' = r.ollamaMode
  /\ providerFromInteractive' = r.fromInteractive
  /\ pc' = "resolveApiKey"

\* readUserConfig: readFileSync throws for a missing file and JSON.parse for
\* text that is not JSON, and both are caught; whatever JSON.parse returns is
\* returned as it is. Reading a field of a number, a string or an array
\* yields undefined, as for {}
readUserConfig(f, obj) ==
  IF f \in {"missing", "notJSON"} THEN EmptyConfig
  ELSE IF f = "null" THEN NullConfig
  ELSE IF f = "scalar" THEN EmptyConfig
  ELSE obj

\* ReadUserConfig where the file is read a second time
ReadUserConfig_twice ==
  /\ pc = "start"
  /\ savedConfig' = readUserConfig(file, store)
  /\ calls' = Bump(Bump(calls, "read"), "read")
  /\ pc' = "resolveProvider"
  /\ UNCHANGED << inputV, store, providerV, apiKey, modelV, models, menuV, loopV,
                  lastKey, written, exitCode, errLines >>

\* run(): const savedConfig = readUserConfig()
ReadUserConfig ==
  /\ pc = "start"
  /\ savedConfig' = readUserConfig(file, store)
  /\ calls' = Bump(calls, "read")
  /\ pc' = "resolveProvider"
  /\ UNCHANGED << inputV, store, providerV, apiKey, modelV, models, menuV, loopV,
                  lastKey, written, exitCode, errLines >>

\* ResolveProvider where --setup drops the provider flag before resolving
ResolveProvider_setupDropsFlag ==
  /\ pc = "resolveProvider"
  /\ LET a == IF args.setup
                THEN [args EXCEPT !.provider = NoEnum, !.ollamaMode = NoEnum]
                ELSE args
         r == resolveProvider(a, savedConfig, env) IN
       IF ~r.picker
         THEN /\ ProviderResolved(r)
              /\ UNCHANGED << menuV, calls >>
       ELSE IF ~isTTY
         THEN /\ ProviderResolved(PickerResult(ProviderItems[1]))
              /\ calls' = Bump(calls, "select")
              /\ UNCHANGED menuV
       ELSE /\ menu' = ProviderItems
            /\ selected' = 0
            /\ moves' = NoMoves
            /\ term' = selectOpen(term)
            /\ calls' = Bump(calls, "select")
            /\ pc' = "providerMenu"
            /\ UNCHANGED providerV
  /\ UNCHANGED << inputV, store, savedConfig, apiKey, modelV, models, loopV,
                  lastKey, written, exitCode, errLines >>

\* run(): await resolveProvider(args, savedConfig, env)
ResolveProvider ==
  /\ pc = "resolveProvider"
  /\ LET r == resolveProvider(args, savedConfig, env) IN
       IF ~r.picker /\ r.provider = NullConfig.provider
         \* savedConfig.provider was read from null: the TypeError is caught
         \* by run(), printed, and the process exits with 1
         THEN /\ Fail(Err("Cannot read properties of null", ""))
              /\ UNCHANGED << providerV, menuV, calls >>
       ELSE IF ~r.picker
         THEN /\ ProviderResolved(r)
              /\ UNCHANGED << menuV, calls, exitCode, errLines >>
       ELSE IF ~isTTY
         \* selectFromList without a terminal returns items[0].value
         THEN /\ ProviderResolved(PickerResult(ProviderItems[1]))
              /\ calls' = Bump(calls, "select")
              /\ UNCHANGED << menuV, exitCode, errLines >>
       ELSE /\ menu' = ProviderItems
            /\ selected' = 0
            /\ moves' = NoMoves
            /\ term' = selectOpen(term)
            /\ calls' = Bump(calls, "select")
            /\ pc' = "providerMenu"
            /\ UNCHANGED << providerV, exitCode, errLines >>
  /\ UNCHANGED << inputV, store, savedConfig, apiKey, modelV, models, loopV,
                  lastKey, written >>

\* -------------------------------------------------------- resolveApiKey
\* resolveApiKey that returns the environment key as it stands
resolveApiKey_untrimmed(envKey, savedKey) ==
  IF envKey # Undefined /\ Trim(envKey[1]) # <<>> THEN envKey
  ELSE IF savedKey # Undefined /\ Trim(savedKey[1]) # <<>> THEN Def(Trim(savedKey[1]))
  ELSE Undefined

\* const key = envKey?.trim() || savedKey?.trim(); Undefined when falsy
resolveApiKey(envKey, savedKey) ==
  IF envKey # Undefined /\ Trim(envKey[1]) # <<>> THEN Def(Trim(envKey[1]))
  ELSE IF savedKey # Undefined /\ Trim(savedKey[1]) # <<>> THEN Def(Trim(savedKey[1]))
  ELSE Undefined

\* the OpenAI arm of run(): same shape as the Anthropic arm
OpenAIArm(p) == p = "openai"

OpenAIKeyInputs(e, saved) ==
  [envKey |-> e.OPENAI_API_KEY,
   savedKey |-> IF saved.provider = "openai" THEN saved.apiKey ELSE Undefined,
   envVarName |-> "OPENAI_API_KEY"]

\* run(): which provider/mode gets a credential
RequiresApiKey(p, m) == p = "anthropic" \/ OpenAIArm(p) \/ m = "cloud"

\* KeyInputs that passes the saved key whatever it was saved for
KeyInputs_anySaved(p, m, e, saved) ==
  IF p = "anthropic"
    THEN [envKey |-> e.ANTHROPIC_API_KEY,
          savedKey |-> saved.apiKey,
          envVarName |-> "ANTHROPIC_API_KEY"]
  ELSE IF OpenAIArm(p) THEN OpenAIKeyInputs(e, saved)
  ELSE [envKey |-> e.OLLAMA_API_KEY,
        savedKey |-> saved.apiKey,
        envVarName |-> "OLLAMA_API_KEY"]

\* run(): the (envKey, savedKey, {envVarName}) arguments passed to resolveApiKey
KeyInputs(p, m, e, saved) ==
  IF p = "anthropic"
    THEN [envKey |-> e.ANTHROPIC_API_KEY,
          savedKey |-> IF saved.provider = "anthropic" THEN saved.apiKey ELSE Undefined,
          envVarName |-> "ANTHROPIC_API_KEY"]
  ELSE IF OpenAIArm(p) THEN OpenAIKeyInputs(e, saved)
  ELSE [envKey |-> e.OLLAMA_API_KEY,
        savedKey |-> IF saved.ollamaMode = "cloud" THEN saved.apiKey ELSE Undefined,
        envVarName |-> "OLLAMA_API_KEY"]

\* ResolveApiKey that first stores the resolved provider
ResolveApiKey_savesProvider ==
  /\ pc = "resolveApiKey"
  /\ store' = [store EXCEPT !.provider = provider]
  /\ IF ~RequiresApiKey(provider, ollamaMode)
       THEN /\ pc' = "resolveModel"
            /\ UNCHANGED << apiKey, calls, exitCode, errLines >>
     ELSE IF savedConfig = NullConfig
       THEN /\ Fail(Err("Fatal error: Cannot read properties of null", ""))
            /\ UNCHANGED << apiKey, calls >>
     ELSE LET ki == KeyInputs(provider, ollamaMode, env, savedConfig)
              key == resolveApiKey(ki.envKey, ki.savedKey) IN
       IF key # Undefined
         THEN /\ apiKey' = key
              /\ pc' = "resolveModel"
              /\ UNCHANGED << calls, exitCode, errLines >>
       ELSE IF ~isTTY
         THEN /\ Fail(Err("provider requires; Set it with:", ki.envVarName))
              /\ UNCHANGED << apiKey, calls >>
       ELSE /\ pc' = "keyPrompt"
            /\ calls' = Bump(calls, "input")
            /\ UNCHANGED << apiKey, exitCode, errLines >>
  /\ UNCHANGED << inputV, savedConfig, providerV, modelV, models, menuV,
                  loopV, lastKey, written >>

\* run(): apiKey = await resolveApiKey(...), up to the prompt
ResolveApiKey ==
  /\ pc = "resolveApiKey"
  /\ IF ~RequiresApiKey(provider, ollamaMode)
       THEN /\ pc' = "resolveModel"
            /\ UNCHANGED << apiKey, calls, exitCode, errLines >>
     ELSE IF savedConfig = NullConfig
       \* the saved-key argument reads a field of null outside any try block:
       \* run() rejects, and its catch prints "Fatal error:" and exits with 1
       THEN /\ Fail(Err("Fatal error: Cannot read properties of null", ""))
            /\ UNCHANGED << apiKey, calls >>
     ELSE LET ki == KeyInputs(provider, ollamaMode, env, savedConfig)
              key == resolveApiKey(ki.envKey, ki.savedKey) IN
       IF key # Undefined
         THEN /\ apiKey' = key
              /\ pc' = "resolveModel"
              /\ UNCHANGED << calls, exitCode, errLines >>
       ELSE IF ~isTTY
         THEN /\ Fail(Err("provider requires; Set it with:", ki.envVarName))
              /\ UNCHANGED << apiKey, calls >>
       ELSE /\ pc' = "keyPrompt"
            /\ calls' = Bump(calls, "input")
            /\ UNCHANGED << apiKey, exitCode, errLines >>
  /\ UNCHANGED << inputV, store, savedConfig, providerV, modelV, models, menuV,
                  loopV, lastKey, written >>

\* KeyPromptAnswer that returns whatever was entered, empty or not
KeyPromptAnswer_acceptsEmpty ==
  /\ pc = "keyPrompt"
  /\ \E answer \in Answers :
       /\ entered' = Def(answer)
       /\ apiKey' = Def(Trim(answer))
       /\ pc' = "resolveModel"
       /\ UNCHANGED << exitCode, errLines >>
  /\ UNCHANGED << inputV, store, savedConfig, providerV, modelV, models, menuV,
                  genV, lastKey, calls, written >>

\* resolveApiKey: const entered = await promptInput(...); answer.trim()
KeyPromptAnswer ==
  /\ pc = "keyPrompt"
  /\ \E answer \in Answers :
       /\ entered' = Def(answer)
       /\ IF Trim(answer) = <<>>
            THEN Fail(Err("API key is required", "")) /\ UNCHANGED apiKey
            ELSE /\ apiKey' = Def(Trim(answer))
                 /\ pc' = "resolveModel"
                 /\ UNCHANGED << exitCode, errLines >>
  /\ UNCHANGED << inputV, store, savedConfig, providerV, modelV, models, menuV,
                  genV, lastKey, calls, written >>

\* ------------------------------------------------------ model resolution
\* ModelResolved that stores the default cloud model
ModelResolved_default(m, fromInteractive) ==
  /\ model' = Def(DEFAULT_CLOUD_MODEL)
  /\ modelFromInteractive' = fromInteractive
  /\ pc' = "persist"

\* run(): model = result.model; modelFromInteractive = result.fromInteractive
ModelResolved(m, fromInteractive) ==
  /\ model' = Def(m)
  /\ modelFromInteractive' = fromInteractive
  /\ pc' = "persist"

CustomModelOf(p) == IF p = "anthropic" THEN ANTHROPIC_CUSTOM_MODEL ELSE OPENAI_CUSTOM_MODEL

\* the items of the model menu of resolveAnthropicModel / resolveOpenAIModel
HostedItems(p) ==
  IF p = "anthropic" THEN Append(ANTHROPIC_MODELS, ANTHROPIC_CUSTOM_MODEL)
  ELSE Append(OPENAI_MODELS, OPENAI_CUSTOM_MODEL)

\* HostedSelected that returns whatever the menu returned
HostedSelected_returnsSentinel(p, value, c) ==
  /\ ModelResolved(value, TRUE)
  /\ calls' = c

\* resolveAnthropicModel / resolveOpenAIModel: what the menu's value leads to;
\* c counts the calls made so far
HostedSelected(p, value, c) ==
  IF value = CustomModelOf(p)
    THEN /\ pc' = "customPrompt"
         /\ calls' = Bump(c, "input")
         /\ UNCHANGED modelV
    ELSE /\ ModelResolved(value, TRUE)
         /\ calls' = c

\* ResolveHostedModel that reuses the saved model even under --setup
ResolveHostedModel_ignoresSetup(p) ==
  IF Truthy(args.model)
    THEN ModelResolved(args.model[1], FALSE) /\ UNCHANGED << menuV, calls >>
  ELSE IF savedConfig.provider = p /\ Truthy(savedConfig.model)
    THEN ModelResolved(savedConfig.model[1], FALSE) /\ UNCHANGED << menuV, calls >>
  ELSE IF ~isTTY
    THEN HostedSelected(p, HostedItems(p)[1], Bump(calls, "select")) /\ UNCHANGED menuV
  ELSE /\ menu' = HostedItems(p)
       /\ selected' = 0
       /\ moves' = NoMoves
       /\ term' = selectOpen(term)
       /\ pc' = "hostedMenu"
       /\ calls' = Bump(calls, "select")
       /\ UNCHANGED modelV

\* resolveAnthropicModel / resolveOpenAIModel, up to the menu
ResolveHostedModel(p) ==
  IF Truthy(args.model)
    THEN ModelResolved(args.model[1], FALSE) /\ UNCHANGED << menuV, calls >>
  ELSE IF ~args.setup /\ savedConfig.provider = p /\ Truthy(savedConfig.model)
    THEN ModelResolved(savedConfig.model[1], FALSE) /\ UNCHANGED << menuV, calls >>
  ELSE IF ~isTTY
    THEN HostedSelected(p, HostedItems(p)[1], Bump(calls, "select")) /\ UNCHANGED menuV
  ELSE /\ menu' = HostedItems(p)
       /\ selected' = 0
       /\ moves' = NoMoves
       /\ term' = selectOpen(term)
       /\ pc' = "hostedMenu"
       /\ calls' = Bump(calls, "select")
       /\ UNCHANGED modelV

\* ResolveCloudModel that reuses a model saved for any mode
ResolveCloudModel_anyMode ==
  IF Truthy(savedConfig.model) /\ ~args.setup
    THEN ModelResolved(savedConfig.model[1], FALSE) /\ UNCHANGED calls
    ELSE /\ pc' = "cloudPrompt"
         /\ calls' = Bump(calls, "input")
         /\ UNCHANGED modelV

\* resolveOllamaModel, mode === 'cloud', up to the prompt
ResolveCloudModel ==
  LET saved == IF savedConfig.ollamaMode = "cloud" THEN savedConfig.model ELSE Undefined IN
    IF Truthy(saved) /\ ~args.setup
      THEN ModelResolved(saved[1], FALSE) /\ UNCHANGED calls
      ELSE /\ pc' = "cloudPrompt"
           /\ calls' = Bump(calls, "input")
           /\ UNCHANGED modelV

\* includes that finds every model
Includes_always(list, m) == TRUE

\* models.includes(m)
Includes(list, m) == \E i \in 1..Len(list) : list[i] = m

\* ResolveLocalModel that picks the last installed model for a flag provider
ResolveLocalModel_lastModel(inv) ==
  IF Len(inv) = 0
    THEN /\ Fail(Err("No local models found. Install one with: ollama pull llama3.2", ""))
         /\ UNCHANGED << modelV, menuV >>
         /\ calls' = Bump(calls, "inventory")
  ELSE IF /\ ~args.setup
          /\ savedConfig.provider = "ollama"
          /\ savedConfig.ollamaMode = "local"
          /\ Truthy(savedConfig.model)
          /\ Includes(inv, savedConfig.model[1])
    THEN /\ ModelResolved(savedConfig.model[1], FALSE)
         /\ calls' = Bump(calls, "inventory")
         /\ UNCHANGED << menuV, exitCode, errLines >>
  ELSE IF args.provider # NoEnum /\ ~args.setup
    THEN /\ ModelResolved(inv[Len(inv)], FALSE)
         /\ calls' = Bump(calls, "inventory")
         /\ UNCHANGED << menuV, exitCode, errLines >>
  ELSE IF ~isTTY
    THEN /\ ModelResolved(inv[1], TRUE)
         /\ calls' = Bump(Bump(calls, "inventory"), "select")
         /\ UNCHANGED << menuV, exitCode, errLines >>
  ELSE /\ menu' = inv
       /\ selected' = 0
       /\ moves' = NoMoves
       /\ term' = selectOpen(term)
       /\ pc' = "localMenu"
       /\ calls' = Bump(Bump(calls, "inventory"), "select")
       /\ UNCHANGED << modelV, exitCode, errLines >>

\* resolveOllamaModel, local mode, after getLocalModels returned inv
ResolveLocalModel(inv) ==
  IF Len(inv) = 0
    \* throw new LLMError('No local models found...'), caught by run()
    THEN /\ Fail(Err("No local models found. Install one with: ollama pull llama3.2", ""))
         /\ UNCHANGED << modelV, menuV >>
         /\ calls' = Bump(calls, "inventory")
  ELSE IF ~args.setup /\ savedConfig = NullConfig
    \* !args.setup && savedConfig.provider === ... reads a field of null; the
    \* TypeError is caught by run(), printed, and the process exits with 1
    THEN /\ Fail(Err("TypeError: Cannot read properties of null", ""))
         /\ UNCHANGED << modelV, menuV >>
         /\ calls' = Bump(calls, "inventory")
  ELSE IF /\ ~args.setup
          /\ savedConfig.provider = "ollama"
          /\ savedConfig.ollamaMode = "local"
          /\ Truthy(savedConfig.model)
          /\ Includes(inv, savedConfig.model[1])
    THEN /\ ModelResolved(savedConfig.model[1], FALSE)
         /\ calls' = Bump(calls, "inventory")
         /\ UNCHANGED << menuV, exitCode, errLines >>
  ELSE IF args.provider # NoEnum /\ ~args.setup
    THEN /\ ModelResolved(inv[1], FALSE)
         /\ calls' = Bump(calls, "inventory")
         /\ UNCHANGED << menuV, exitCode, errLines >>
  ELSE IF ~isTTY
    THEN /\ ModelResolved(inv[1], TRUE)
         /\ calls' = Bump(Bump(calls, "inventory"), "select")
         /\ UNCHANGED << menuV, exitCode, errLines >>
  ELSE /\ menu' = inv
       /\ selected' = 0
       /\ moves' = NoMoves
       /\ term' = selectOpen(term)
       /\ pc' = "localMenu"
       /\ calls' = Bump(Bump(calls, "inventory"), "select")
       /\ UNCHANGED << modelV, exitCode, errLines >>

\* run(): the model step for Anthropic (and the OpenAI arm)
ResolveModelHosted ==
  /\ pc = "resolveModel"
  /\ provider = "anthropic" \/ OpenAIArm(provider)
  /\ ResolveHostedModel(provider)
  /\ UNCHANGED << inputV, store, savedConfig, providerV, apiKey, models, loopV,
                  lastKey, written, exitCode, errLines >>

\* run(): resolveOllamaModel(args, savedConfig, {mode: ollamaMode ?? 'local'}),
\* --model given or cloud mode
ResolveModelOllama ==
  /\ pc = "resolveModel"
  /\ ~(provider = "anthropic" \/ OpenAIArm(provider))
  /\ LET mode == IF ollamaMode = NoEnum THEN "local" ELSE ollamaMode IN
       /\ Truthy(args.model) \/ mode = "cloud"
       /\ IF Truthy(args.model)
            THEN ModelResolved(args.model[1], FALSE) /\ UNCHANGED calls
            ELSE ResolveCloudModel
  /\ UNCHANGED << inputV, store, savedConfig, providerV, apiKey, models, menuV,
                  loopV, lastKey, written, exitCode, errLines >>

\* what getLocalModels does: returns a list, or throws OllamaError (Undefined)
InventoryOutcomes == {Def(inv) : inv \in Inventories} \cup {Undefined}

\* ResolveModelLocal that queries the inventory again when it is empty
ResolveModelLocal_retries ==
  /\ pc = "resolveModel"
  /\ ~(provider = "anthropic" \/ OpenAIArm(provider))
  /\ ~Truthy(args.model)
  /\ (IF ollamaMode = NoEnum THEN "local" ELSE ollamaMode) = "local"
  /\ \E r \in InventoryOutcomes :
       IF r = Undefined
         THEN /\ Fail(Err("Could not connect to Ollama", ""))
              /\ calls' = Bump(calls, "inventory")
              /\ UNCHANGED << models, modelV, menuV >>
       ELSE IF r[1] = <<>> /\ calls.inventory = 0
         THEN /\ models' = r
              /\ calls' = Bump(calls, "inventory")
              /\ UNCHANGED << pc, modelV, menuV, exitCode, errLines >>
         ELSE /\ models' = r
              /\ ResolveLocalModel(r[1])
  /\ UNCHANGED << inputV, store, savedConfig, providerV, apiKey, loopV,
                  lastKey, written >>

\* resolveOllamaModel, local mode: const models = await getLocalModels(tagsUrl)
\* and the rest of the function; run() catches what it throws
ResolveModelLocal ==
  /\ pc = "resolveModel"
  /\ ~(provider = "anthropic" \/ OpenAIArm(provider))
  /\ ~Truthy(args.model)
  /\ (IF ollamaMode = NoEnum THEN "local" ELSE ollamaMode) = "local"
  /\ \E r \in InventoryOutcomes :
       IF r = Undefined
         THEN /\ Fail(Err("Could not connect to Ollama", ""))
              /\ calls' = Bump(calls, "inventory")
              /\ UNCHANGED << models, modelV, menuV >>
         ELSE /\ models' = r
              /\ ResolveLocalModel(r[1])
  /\ UNCHANGED << inputV, store, savedConfig, providerV, apiKey, loopV,
                  lastKey, written >>

\* resolveOllamaModel: const entered = await promptInput(`Cloud model [...]: `)
CloudPromptAnswer ==
  /\ pc = "cloudPrompt"
  /\ \E answer \in Answers :
       /\ entered' = Def(answer)
       /\ ModelResolved(IF Trim(answer) = <<>> THEN DEFAULT_CLOUD_MODEL ELSE Trim(answer),
                        TRUE)
  /\ UNCHANGED << inputV, store, savedConfig, providerV, apiKey, models, menuV,
                  genV, lastKey, calls, written, exitCode, errLines >>

\* resolveAnthropicModel / resolveOpenAIModel: await promptInput('Model name: ')
CustomPromptAnswer ==
  /\ pc = "customPrompt"
  /\ \E answer \in Answers :
       /\ entered' = Def(answer)
       /\ IF Trim(answer) = <<>>
            THEN Fail(Err("Model name is required.", "")) /\ UNCHANGED modelV
            ELSE ModelResolved(Trim(answer), TRUE) /\ UNCHANGED << exitCode, errLines >>
  /\ UNCHANGED << inputV, store, savedConfig, providerV, apiKey, models, menuV,
                  genV, lastKey, calls, written >>

\* -------------------------------------------------------- selectFromList
\* SelectKey where up stops at the first item instead of wrapping
SelectKey_noWrap ==
  /\ pc \in {"providerMenu", "hostedMenu", "localMenu"}
  /\ \E key \in MenuKeys :
       /\ lastKey' = key
       /\ key.name \in {"up", "down"} => moves.up + moves.down < MaxMoves
       /\ IF key = NullKey
            THEN UNCHANGED << pc, providerV, modelV, menuV, calls, exitCode, errLines >>
          ELSE IF (key.ctrl /\ key.name = "c") \/ key.name = "escape"
            THEN /\ cancel
                 /\ term' = selectCleanup(term)
                 /\ UNCHANGED << providerV, modelV, menu, selected, moves, calls >>
          ELSE IF key.name = "up"
            THEN /\ selected' = IF selected = 0 THEN 0 ELSE selected - 1
                 /\ moves' = [moves EXCEPT !.up = @ + 1]
                 /\ UNCHANGED << pc, providerV, modelV, menu, term, calls, exitCode, errLines >>
          ELSE IF key.name = "down"
            THEN /\ selected' = (selected + 1) % Len(menu)
                 /\ moves' = [moves EXCEPT !.down = @ + 1]
                 /\ UNCHANGED << pc, providerV, modelV, menu, term, calls, exitCode, errLines >>
          ELSE IF key.name = "return"
            THEN LET chosen == menu[selected + 1] IN
                 /\ menu' = <<>>
                 /\ selected' = 0
                 /\ moves' = NoMoves
                 /\ term' = selectCleanup(term)
                 /\ UNCHANGED << exitCode, errLines >>
                 /\ IF pc = "providerMenu"
                      THEN /\ ProviderResolved(PickerResult(chosen))
                           /\ UNCHANGED << modelV, calls >>
                    ELSE IF pc = "hostedMenu"
                      THEN HostedSelected(provider, chosen, calls) /\ UNCHANGED providerV
                    ELSE /\ ModelResolved(chosen, TRUE)
                         /\ UNCHANGED << providerV, calls >>
          ELSE UNCHANGED << pc, providerV, modelV, menuV, calls, exitCode, errLines >>
  /\ UNCHANGED << inputV, store, savedConfig, apiKey, models, loopV, written >>

\* selectFromList.onKey: one keypress at an open menu
SelectKey ==
  /\ pc \in {"providerMenu", "hostedMenu", "localMenu"}
  /\ \E key \in MenuKeys :
       /\ lastKey' = key
       /\ key.name \in {"up", "down"} => moves.up + moves.down < MaxMoves
       /\ IF key = NullKey
            THEN UNCHANGED << pc, providerV, modelV, menuV, calls, exitCode, errLines >>
          ELSE IF (key.ctrl /\ key.name = "c") \/ key.name = "escape"
            THEN /\ cancel
                 /\ term' = selectCleanup(term)
                 /\ UNCHANGED << providerV, modelV, menu, selected, moves, calls >>
          ELSE IF key.name = "up"
            THEN /\ selected' = (selected - 1 + Len(menu)) % Len(menu)
                 /\ moves' = [moves EXCEPT !.up = @ + 1]
                 /\ UNCHANGED << pc, providerV, modelV, menu, term, calls, exitCode, errLines >>
          ELSE IF key.name = "down"
            THEN /\ selected' = (selected + 1) % Len(menu)
                 /\ moves' = [moves EXCEPT !.down = @ + 1]
                 /\ UNCHANGED << pc, providerV, modelV, menu, term, calls, exitCode, errLines >>
          ELSE IF key.name = "return"
            THEN LET chosen == menu[selected + 1] IN
                 /\ menu' = <<>>
                 /\ selected' = 0
                 /\ moves' = NoMoves
                 /\ term' = selectCleanup(term)
                 /\ UNCHANGED << exitCode, errLines >>
                 /\ IF pc = "providerMenu"
                      THEN /\ ProviderResolved(PickerResult(chosen))
                           /\ UNCHANGED << modelV, calls >>
                    ELSE IF pc = "hostedMenu"
                      THEN HostedSelected(provider, chosen, calls) /\ UNCHANGED providerV
                    ELSE /\ ModelResolved(chosen, TRUE)
                         /\ UNCHANGED << providerV, calls >>
          ELSE UNCHANGED << pc, providerV, modelV, menuV, calls, exitCode, errLines >>
  /\ UNCHANGED << inputV, store, savedConfig, apiKey, models, loopV, written >>

\* promptInput: readline.createInterface + rl.question, no keypress listener:
\* Escape reaches no handler and the question stays pending.  (Ctrl+C at a
\* readline prompt is handled by readline's default, not by this code, and
\* is left out.)
InputKey ==
  /\ pc \in {"keyPrompt", "cloudPrompt", "customPrompt"}
  /\ lastKey' = K("escape")
  /\ UNCHANGED << pc, inputV, store, savedConfig, providerV, apiKey, modelV, models,
                  menuV, loopV, calls, written, exitCode, errLines >>

\* ------------------------------------------------------------ persistence
\* apiKeyIsNew without the "no saved key" condition
apiKeyIsNew_anyKey ==
  RequiresApiKey(provider, ollamaMode) /\ Truthy(apiKey)

\* run(): const apiKeyIsNew = ...
apiKeyIsNew ==
  RequiresApiKey(provider, ollamaMode) /\ ~Truthy(savedConfig.apiKey) /\ Truthy(apiKey)

\* run(): providerFromInteractive || modelFromInteractive || apiKeyIsNew
ShouldPersist == providerFromInteractive \/ modelFromInteractive \/ apiKeyIsNew

\* run(): const configToSave = { provider, model }; ...
configToSave ==
  [provider |-> provider,
   ollamaMode |-> IF provider = "ollama" THEN ollamaMode ELSE NoEnum,
   model |-> model,
   apiKey |-> apiKey]

\* buildOllamaChatUrl: which server the chat URL names
buildOllamaChatUrl(mode) == IF mode = "cloud" THEN "cloud" ELSE "local"

\* buildConfig with the resolved mode passed through as it is
buildConfig_keepsMode(p, mode, mdl, key) ==
  LET resolvedMode == mode IN
  [provider |-> p,
   ollamaMode |-> resolvedMode,
   url |-> IF p = "ollama" THEN buildOllamaChatUrl(resolvedMode) ELSE "",
   model |-> mdl,
   apiKey |-> key]

\* buildConfig({ provider, ollamaMode, model, apiKey }): the RunConfig
buildConfig(p, mode, mdl, key) ==
  LET resolvedMode == IF p = "ollama"
                        THEN (IF mode = NoEnum THEN "local" ELSE mode)
                        ELSE NoEnum IN
  [provider |-> p,
   ollamaMode |-> resolvedMode,
   url |-> IF p = "ollama" THEN buildOllamaChatUrl(resolvedMode) ELSE "",
   model |-> mdl,
   apiKey |-> key]

\* run(): const config = buildConfig({ provider, ollamaMode, model, apiKey }),
\* the value every generate(diff, config) call of the run receives
config == buildConfig(provider, ollamaMode, model, apiKey)

\* Persist that writes at most once and never moves on to the staged diff
Persist_stays ==
  /\ pc = "persist"
  /\ IF ShouldPersist /\ calls.write = 0
       THEN /\ store' = configToSave
            /\ file' = "object"
            /\ written' = Def(configToSave)
            /\ calls' = Bump(calls, "write")
       ELSE UNCHANGED << file, store, written, calls >>
  /\ pc' = "persist"
  /\ UNCHANGED << args, env, isTTY, savedConfig, providerV, apiKey, modelV, models, menuV,
                  loopV, lastKey, exitCode, errLines >>

\* run(): the persistence decision and writeUserConfig(configToSave)
Persist ==
  /\ pc = "persist"
  /\ IF ShouldPersist
       THEN /\ store' = configToSave
            /\ file' = "object"
            /\ written' = Def(configToSave)
            /\ calls' = Bump(calls, "write")
       ELSE UNCHANGED << file, store, written, calls >>
  /\ pc' = "getDiff"
  /\ UNCHANGED << args, env, isTTY, savedConfig, providerV, apiKey, modelV, models, menuV,
                  loopV, lastKey, exitCode, errLines >>

\* ------------------------------------------------------- interaction loop
\* outcomes of git diff --staged: spawn error, blank output, a diff
DiffOutcomes == {"error", "blank", "diff"}

\* GetStagedDiff that puts the preferences back as they were read when there
\* is nothing to commit
GetStagedDiff_rollsBack ==
  /\ pc = "getDiff"
  /\ \E d \in DiffOutcomes :
       /\ store' = IF d = "diff" THEN store ELSE savedConfig
       /\ IF d = "diff"
            THEN pc' = "generating" /\ UNCHANGED << exitCode, errLines >>
          ELSE IF d = "error"
            THEN Fail(Err("Error running git diff", ""))
            ELSE Fail(Err("No staged changes found.", ""))
  /\ calls' = Bump(calls, "diff")
  /\ UNCHANGED << inputV, savedConfig, providerV, apiKey, modelV, models,
                  menuV, loopV, lastKey, written >>

\* run(): diff = getStagedDiff(); if (!diff.trim()) ...; then the first generate()
GetStagedDiff ==
  /\ pc = "getDiff"
  /\ \E d \in DiffOutcomes :
       IF d = "diff"
         THEN pc' = "generating" /\ UNCHANGED << exitCode, errLines >>
       ELSE IF d = "error"
         THEN Fail(Err("Error running git diff", ""))
         ELSE Fail(Err("No staged changes found.", ""))
  /\ calls' = Bump(calls, "diff")
  /\ UNCHANGED << inputV, store, savedConfig, providerV, apiKey, modelV, models,
                  menuV, loopV, lastKey, written >>

\* the content field of a provider's response, before trim()
Replies == { <<" ">>, <<"m">>, <<" ", "n">> }

\* what the transport can do with one request: refuse the connection, answer
\* with a non-success status, answer with success and a body that is not
\* JSON, with JSON that has no text content, or with JSON that has one
Transports ==
  {[kind |-> k, content |-> <<>>] : k \in {"refused", "status", "notJSON", "noContent"}}
    \cup {[kind |-> "content", content |-> c] : c \in Replies}

\* the outcome of a provider call: the class and message of what it throws
\* (thrown = "" when it returns) and the value it returns
Returned(value) == [thrown |-> "", text |-> "", value |-> value]

Thrown(class, text) == [thrown |-> class, text |-> text, value |-> <<>>]

\* errors.ts: the classes that extend LLMError (OpenAIError: openai.ts)
IsLLMError(class) == class \in {"LLMError", "OllamaError", "AnthropicError", "OpenAIError"}

\* anthropic.ts generateCommitMessage; await response.json() on the success
\* path is outside every try block
generateAnthropicMessage(t) ==
  IF t.kind = "refused"
    THEN Thrown("AnthropicError", "Could not connect to Anthropic API")
  ELSE IF t.kind = "status"
    THEN Thrown("AnthropicError", "Anthropic API error")
  ELSE IF t.kind = "notJSON"
    THEN Thrown("SyntaxError", "Unexpected token")
  ELSE IF t.kind = "noContent"
    THEN Thrown("AnthropicError", "Unexpected response from Anthropic API: missing content")
  ELSE Returned(Trim(t.content))

\* openai.ts generateCommitMessage
generateOpenAIMessage(t) ==
  IF t.kind = "refused"
    THEN Thrown("OpenAIError", "Could not connect to OpenAI API")
  ELSE IF t.kind = "status"
    THEN Thrown("OpenAIError", "OpenAI API error")
  ELSE IF t.kind = "notJSON"
    THEN Thrown("SyntaxError", "Unexpected token")
  ELSE IF t.kind = "noContent"
    THEN Thrown("OpenAIError", "Unexpected response from OpenAI API: missing content")
  ELSE Returned(Trim(t.content))

\* ollama.ts generateCommitMessage
generateOllamaMessage(t) ==
  IF t.kind = "refused"
    THEN Thrown("OllamaError", "Could not connect to Ollama")
  ELSE IF t.kind = "status"
    THEN Thrown("OllamaError", "Ollama returned an error")
  ELSE IF t.kind = "notJSON"
    THEN Thrown("SyntaxError", "Unexpected token")
  ELSE IF t.kind = "noContent"
    THEN Thrown("OllamaError", "Unexpected response from Ollama: missing message.content")
  ELSE Returned(Trim(t.content))

\* generate(diff, config): the provider's own generateCommitMessage
generate(p, t) ==
  IF p = "anthropic" THEN generateAnthropicMessage(t)
  ELSE IF OpenAIArm(p) THEN generateOpenAIMessage(t)
  ELSE generateOllamaMessage(t)

\* run(): err instanceof LLMError ? err.message : String(err)
ErrorLine(r) ==
  IF IsLLMError(r.thrown) THEN r.text
  ELSE IF r.thrown = "SyntaxError" THEN "SyntaxError: Unexpected token"
  ELSE r.thrown

\* Generate where a regeneration leaves the first message in place
Generate_keepsFirst ==
  /\ pc \in {"generating", "regenerating"}
  /\ \E t \in Transports :
       LET r == generate(provider, t) IN
       /\ r.thrown = ""
       /\ message' = IF pc = "generating" THEN r.value ELSE message
       /\ lastGen' = Def(r.value)
  /\ calls' = Bump(Bump(calls, "generate"), "promptUser")
  /\ pc' = "presenting"
  /\ term' = promptOpen(term)
  /\ UNCHANGED << inputV, store, savedConfig, providerV, apiKey, modelV, models,
                  menu, selected, moves, lastKey, submitted, entered, commitArg, commitStatus, written, exitCode,
                  errLines >>

\* run(): message = await generate(diff, config) succeeds; then promptUser(message)
Generate ==
  /\ pc \in {"generating", "regenerating"}
  /\ \E t \in Transports :
       LET r == generate(provider, t) IN
       /\ r.thrown = ""
       /\ message' = r.value
       /\ lastGen' = Def(r.value)
  /\ calls' = Bump(Bump(calls, "generate"), "promptUser")
  /\ pc' = "presenting"
  /\ term' = promptOpen(term)
  /\ UNCHANGED << inputV, store, savedConfig, providerV, apiKey, modelV, models,
                  menu, selected, moves, lastKey, submitted, entered, commitArg, commitStatus, written, exitCode,
                  errLines >>

\* GenerateFails where a failed call is retried instead of ending the run
GenerateFails_retries ==
  /\ pc \in {"generating", "regenerating"}
  /\ calls.generate <= MaxRegen
  /\ pc' = "regenerating"
  /\ \E t \in Transports :
       LET r == generate(provider, t) IN
       /\ r.thrown # ""
       /\ errLines' = Append(errLines, Err(ErrorLine(r), ""))
  /\ calls' = Bump(calls, "generate")
  /\ UNCHANGED << inputV, store, savedConfig, providerV, apiKey, modelV, models,
                  menuV, loopV, lastKey, written, exitCode >>

\* run(): generate() throws; catch: console.error(...); process.exit(1)
GenerateFails ==
  /\ pc \in {"generating", "regenerating"}
  /\ \E t \in Transports :
       LET r == generate(provider, t) IN
       /\ r.thrown # ""
       /\ Fail(Err(ErrorLine(r), ""))
  /\ calls' = Bump(calls, "generate")
  /\ UNCHANGED << inputV, store, savedConfig, providerV, apiKey, modelV, models,
                  menuV, loopV, lastKey, written >>

\* promptUser.onKey matching the key name as it was delivered
promptUser_caseSensitive(key) ==
  IF key = NullKey THEN "ignored"
  ELSE LET name == key.name IN
    IF name = "escape" \/ (key.ctrl /\ name = "c") THEN "cancel"
    ELSE IF name = "a" THEN "accept"
    ELSE IF name = "r" THEN "regenerate"
    ELSE IF name = "e" THEN "edit"
    ELSE "ignored"

\* promptUser.onKey: the choice a key resolves to, "cancel", or "ignored"
promptUser(key) ==
  IF key = NullKey THEN "ignored"
  ELSE LET name == ToLower(key.name) IN
    IF name = "escape" \/ (key.ctrl /\ name = "c") THEN "cancel"
    ELSE IF name = "a" THEN "accept"
    ELSE IF name = "r" THEN "regenerate"
    ELSE IF name = "e" THEN "edit"
    ELSE "ignored"

\* one keypress at the accept/regenerate/edit prompt, and run()'s branch on it
PromptUserKey ==
  /\ pc = "presenting"
  /\ \E key \in PromptKeys :
       LET choice == promptUser(key) IN
       /\ lastKey' = key
       /\ choice = "regenerate" => calls.generate <= MaxRegen
       /\ term' = IF choice = "ignored" THEN term ELSE cleanup(term)
       /\ IF choice = "cancel" THEN cancel /\ UNCHANGED calls
          ELSE IF choice = "accept"
            THEN pc' = "accepted" /\ UNCHANGED << calls, exitCode, errLines >>
          ELSE IF choice = "regenerate"
            THEN /\ pc' = "regenerating"
                 /\ calls' = Bump(calls, "regenerate")
                 /\ UNCHANGED << exitCode, errLines >>
          ELSE IF choice = "edit"
            THEN /\ pc' = "editing"
                 /\ calls' = Bump(calls, "edit")
                 /\ UNCHANGED << exitCode, errLines >>
          ELSE UNCHANGED << pc, calls, exitCode, errLines >>
  /\ UNCHANGED << inputV, store, savedConfig, providerV, apiKey, modelV, models,
                  menu, selected, moves, loopV, written >>

\* return edited.trim() || original
editMessage(original, edited) ==
  IF Trim(edited) # <<>> THEN Trim(edited) ELSE original

\* texts submitted in the edit dialog
Edits == TextsUpTo({" ", "c"}, MaxLen)

\* EditAnswer that presents the edited message again
EditAnswer_presentsAgain ==
  /\ pc = "editing"
  /\ \E line \in Edits :
       /\ submitted' = Def(line)
       /\ message' = editMessage(message, line)
  /\ calls' = Bump(calls, "promptUser")
  /\ pc' = "presenting"
  /\ UNCHANGED << inputV, store, savedConfig, providerV, apiKey, modelV, models,
                  menuV, lastKey, lastGen, entered, commitArg, commitStatus,
                  written, exitCode, errLines >>

\* run(): message = await editMessage(message)
EditAnswer ==
  /\ pc = "editing"
  /\ \E line \in Edits :
       /\ submitted' = Def(line)
       /\ message' = editMessage(message, line)
  /\ pc' = "edited"
  /\ UNCHANGED << inputV, store, savedConfig, providerV, apiKey, modelV, models,
                  menuV, lastKey, lastGen, entered, calls, commitArg, commitStatus,
                  written, exitCode, errLines >>

\* editMessage.onKey: Escape cancels, every other key is left to readline
EditKey ==
  /\ pc = "editing"
  /\ \E key \in {K("escape"), K("z"), NullKey} :
       /\ lastKey' = key
       /\ IF key # NullKey /\ key.name = "escape"
            THEN cancel
            ELSE UNCHANGED << pc, exitCode, errLines >>
  /\ UNCHANGED << inputV, store, savedConfig, providerV, apiKey, modelV, models,
                  menuV, loopV, calls, written >>

\* result.status of the git commit child: a code, or null (Undefined) when
\* the child was killed by a signal
SpawnStatuses == {Def(0), Def(1), Def(128), Undefined}

\* runCommit: return result.status ?? 1
runCommit(status) == IF status = Undefined THEN 1 ELSE status[1]

\* RunCommit where every failure exits with status 1
RunCommit_exitsOne ==
  /\ pc \in {"accepted", "edited"}
  /\ \E raw \in SpawnStatuses :
       LET status == runCommit(raw) IN
       /\ commitStatus' = Def(status)
       /\ IF status # 0
            THEN Exit(1)
            ELSE pc' = "done" /\ UNCHANGED exitCode
  /\ commitArg' = Def(message)
  /\ calls' = Bump(calls, "commit")
  /\ UNCHANGED << inputV, store, savedConfig, providerV, apiKey, modelV, models,
                  menuV, message, lastKey, lastGen, submitted, entered, written, errLines >>

\* run(): const status = runCommit(message); if (status !== 0) process.exit(status)
RunCommit ==
  /\ pc \in {"accepted", "edited"}
  /\ \E raw \in SpawnStatuses :
       LET status == runCommit(raw) IN
       /\ commitStatus' = Def(status)
       /\ IF status # 0
            THEN Exit(status)
            ELSE pc' = "done" /\ UNCHANGED exitCode
  /\ commitArg' = Def(message)
  /\ calls' = Bump(calls, "commit")
  /\ UNCHANGED << inputV, store, savedConfig, providerV, apiKey, modelV, models,
                  menuV, message, lastKey, lastGen, submitted, entered, written, errLines >>

\* RunCommitThrows where the commit is attempted again after a spawn failure
RunCommitThrows_retries ==
  /\ pc \in {"accepted", "edited"}
  /\ calls.commit < 2
  /\ commitArg' = Def(message)
  /\ calls' = Bump(calls, "commit")
  /\ UNCHANGED << pc, exitCode, errLines >>
  /\ UNCHANGED << inputV, store, savedConfig, providerV, apiKey, modelV, models,
                  menuV, message, lastKey, lastGen, submitted, entered, commitStatus, written >>

\* runCommit throws GitError (spawn failure); run() rejects and the entry
\* point's catch prints "Fatal error: ..." and calls process.exit(1)
RunCommitThrows ==
  /\ pc \in {"accepted", "edited"}
  /\ Fail(Err("Fatal error: Failed to run git commit", ""))
  /\ commitArg' = Def(message)
  /\ calls' = Bump(calls, "commit")
  /\ UNCHANGED << inputV, store, savedConfig, providerV, apiKey, modelV, models,
                  menuV, message, lastKey, lastGen, submitted, entered, commitStatus, written >>

\* ------------------------------------------------------- specifications
\* the state of a fresh process, for inputs drawn from the given sets
InitWithFile(A, E, S, T, F) ==
  /\ pc = "start"
  /\ args \in A
  /\ env \in E
  /\ isTTY \in T
  /\ file \in F
  /\ store \in S
  /\ savedConfig = EmptyConfig
  /\ provider = NoEnum
  /\ ollamaMode = NoEnum
  /\ providerFromInteractive = FALSE
  /\ apiKey = Undefined
  /\ model = Undefined
  /\ modelFromInteractive = FALSE
  /\ models = Undefined
  /\ menu = <<>>
  /\ selected = 0
  /\ moves = NoMoves
  /\ term = TermIdle
  /\ message = <<>>
  /\ lastKey = NoKey
  /\ lastGen = Undefined
  /\ submitted = Undefined
  /\ entered = Undefined
  /\ calls = NoCalls
  /\ commitArg = Undefined
  /\ commitStatus = Undefined
  /\ written = Undefined
  /\ exitCode = Undefined
  /\ errLines = <<>>

\* a fresh process whose preference file holds a settings object
InitWith(A, E, S, T) == InitWithFile(A, E, S, T, {"object"})

\* inputs of the whole-run specification: every flag combination, no
\* credential variable or exactly one, and the saved records of the
\* end-to-end tests
RunEnv ==
  { [ANTHROPIC_API_KEY |-> Undefined, OPENAI_API_KEY |-> Undefined, OLLAMA_API_KEY |-> Undefined],
    [ANTHROPIC_API_KEY |-> Def(<<"e", " ">>), OPENAI_API_KEY |-> Undefined, OLLAMA_API_KEY |-> Undefined],
    [ANTHROPIC_API_KEY |-> Undefined, OPENAI_API_KEY |-> Undefined, OLLAMA_API_KEY |-> Def(<<"e", " ">>)] }

SavedLocal ==
  [provider |-> "ollama", ollamaMode |-> "local", model |-> Def(<<"p">>), apiKey |-> Undefined]

RunSaved ==
  { EmptyConfig,
    SavedLocal,
    [provider |-> "ollama", ollamaMode |-> "cloud", model |-> Def(<<"p">>), apiKey |-> Def(<<"k">>)],
    [provider |-> "anthropic", ollamaMode |-> NoEnum, model |-> Def(<<"z">>), apiKey |-> Def(<<"k">>)],
    \* a record with no ollamaMode field: the mode falls back to local
    [provider |-> "ollama", ollamaMode |-> NoEnum, model |-> Def(<<"p">>), apiKey |-> Undefined] }

Init == InitWith(ArgsSet, RunEnv, RunSaved, BOOLEAN)

NextResolve ==
  \/ ReadUserConfig
  \/ ResolveProvider
  \/ SelectKey
  \/ ResolveApiKey
  \/ KeyPromptAnswer
  \/ InputKey
  \/ ResolveModelHosted
  \/ ResolveModelOllama
  \/ ResolveModelLocal
  \/ CloudPromptAnswer
  \/ CustomPromptAnswer
  \/ Persist

NextLoop ==
  \/ GetStagedDiff
  \/ Generate
  \/ GenerateFails
  \/ PromptUserKey
  \/ EditAnswer
  \/ EditKey
  \/ RunCommit
  \/ RunCommitThrows

Next == NextResolve \/ NextLoop

\* one run of the program, from process start to its end
Spec == Init /\ [][Next]_vars

\* resolution and the persistence decision, over every input combination
InitResolve == InitWith(ArgsSet, EnvSet, SavedSet, BOOLEAN)

SpecResolve == InitResolve /\ [][NextResolve]_vars

\* resolution over everything the preference file can hold; a file that
\* does not hold an object holds no settings
InitRead ==
  /\ InitWithFile(ArgsSet, RunEnv, RunSaved, BOOLEAN, FileContents)
  /\ file # "object" => store = EmptyConfig

SpecRead == InitRead /\ [][NextResolve]_vars

\* command-line words: the provider flags, --setup, --model and a model name
ArgWords == {"--local", "--cloud", "--anthropic", "--setup", "--model", "f"}

\* longest command line
MaxArgs == 3

ArgLists == UNION { [1..n -> ArgWords] : n \in 0..MaxArgs }

\* next.startsWith('-')
StartsWithDash(w) == w \in {"--local", "--cloud", "--anthropic", "--setup", "--model"}

\* parseArgs: the loop over argv from index i on; Undefined when it throws
RECURSIVE parseFrom(_, _, _)
parseFrom(argv, i, result) ==
  IF i > Len(argv) THEN Def(result)
  ELSE LET arg == argv[i] IN
    IF arg = "--local"
      THEN parseFrom(argv, i + 1,
                     [result EXCEPT !.provider = "ollama", !.ollamaMode = "local"])
    ELSE IF arg = "--cloud"
      THEN parseFrom(argv, i + 1,
                     [result EXCEPT !.provider = "ollama", !.ollamaMode = "cloud"])
    ELSE IF arg = "--anthropic"
      THEN parseFrom(argv, i + 1, [result EXCEPT !.provider = "anthropic"])
    ELSE IF arg = "--setup"
      THEN parseFrom(argv, i + 1, [result EXCEPT !.setup = TRUE])
    ELSE IF arg = "--model"
      THEN IF i + 1 > Len(argv) \/ StartsWithDash(argv[i + 1])
             THEN Undefined
             ELSE parseFrom(argv, i + 2, [result EXCEPT !.model = Def(<< argv[i + 1] >>)])
    ELSE Undefined

\* parseArgs(argv)
parseArgs(argv) ==
  parseFrom(argv, 1,
            [provider |-> NoEnum, ollamaMode |-> NoEnum, model |-> Undefined,
             setup |-> FALSE])

\* the ParsedArgs of every command line parseArgs accepts
AcceptedArgs == { parseArgs(v)[1] : v \in { w \in ArgLists : parseArgs(w) # Undefined } }

\* the records run() can have written: provider and model present, ollamaMode
\* present exactly for ollama; or no file yet
WrittenRecords ==
  { r \in SavedSet :
      /\ r.provider # NoEnum
      /\ r.model # Undefined
      /\ (r.ollamaMode # NoEnum <=> r.provider = "ollama") } \cup {EmptyConfig}

\* resolution for every accepted command line
InitArgs == InitWith(AcceptedArgs, RunEnv, WrittenRecords, BOOLEAN)

SpecArgs == InitArgs /\ [][NextResolve]_vars

\* the next process: new command line, environment and terminal, and the
\* preference file as the previous process left it
Restart ==
  /\ pc \in {"getDiff", "exited"}
  /\ pc' = "start"
  /\ args' \in AcceptedArgs
  /\ env' \in RunEnv
  /\ isTTY' \in BOOLEAN
  /\ savedConfig' = EmptyConfig
  /\ provider' = NoEnum
  /\ ollamaMode' = NoEnum
  /\ providerFromInteractive' = FALSE
  /\ apiKey' = Undefined
  /\ model' = Undefined
  /\ modelFromInteractive' = FALSE
  /\ models' = Undefined
  /\ menu' = <<>>
  /\ selected' = 0
  /\ moves' = NoMoves
  /\ term' = TermIdle
  /\ message' = <<>>
  /\ lastKey' = NoKey
  /\ lastGen' = Undefined
  /\ submitted' = Undefined
  /\ entered' = Undefined
  /\ calls' = NoCalls
  /\ commitArg' = Undefined
  /\ commitStatus' = Undefined
  /\ written' = Undefined
  /\ exitCode' = Undefined
  /\ errLines' = <<>>
  /\ UNCHANGED << file, store >>

\* a sequence of runs over one preference file, which does not exist before
\* the first run and is written only by the runs
InitRuns == InitWithFile(AcceptedArgs, RunEnv, {EmptyConfig}, BOOLEAN, {"missing"})

NextRuns == NextResolve \/ Restart

SpecRuns == InitRuns /\ [][NextRuns]_vars

\* run() moves on: a collaborator call returns (a prompt with a choice, an
\* answer or a cancellation) and run() takes its next step
Returns == Next /\ pc' # pc

\* one run in which every collaborator call returns
SpecLive == Init /\ [][Next]_vars /\ WF_vars(Returns)

\* the interaction loop alone, entered as end-to-end scenario A enters it:
\* saved {ollama, local, p}, no flag, no credential variable, inventory <<p>>
InitLoop ==
  /\ pc = "getDiff"
  /\ args = [provider |-> NoEnum, ollamaMode |-> NoEnum, model |-> Undefined, setup |-> FALSE]
  /\ env = [ANTHROPIC_API_KEY |-> Undefined, OPENAI_API_KEY |-> Undefined,
            OLLAMA_API_KEY |-> Undefined]
  /\ isTTY \in BOOLEAN
  /\ file = "object"
  /\ store = SavedLocal
  /\ savedConfig = SavedLocal
  /\ provider = "ollama"
  /\ ollamaMode = "local"
  /\ providerFromInteractive = FALSE
  /\ apiKey = Undefined
  /\ model = Def(<<"p">>)
  /\ modelFromInteractive = FALSE
  /\ models = Def(<< <<"p">> >>)
  /\ menu = <<>>
  /\ selected = 0
  /\ moves = NoMoves
  /\ term = TermIdle
  /\ message = <<>>
  /\ lastKey = NoKey
  /\ lastGen = Undefined
  /\ submitted = Undefined
  /\ entered = Undefined
  /\ calls = [NoCalls EXCEPT !.read = 1, !.inventory = 1]
  /\ commitArg = Undefined
  /\ commitStatus = Undefined
  /\ written = Undefined
  /\ exitCode = Undefined
  /\ errLines = <<>>

SpecLoop == InitLoop /\ [][NextLoop]_vars

\* credential resolution alone: a provider flag that needs a key, and every
\* text up to MaxLen over {" ", "k"} as the environment and the saved key
KeyTexts == {Undefined} \cup {Def(t) : t \in TextsUpTo({" ", "k"}, MaxLen)}

KeyArgs ==
  { [provider |-> "anthropic", ollamaMode |-> NoEnum, model |-> Undefined, setup |-> FALSE],
    [provider |-> "ollama", ollamaMode |-> "cloud", model |-> Undefined, setup |-> FALSE] }

KeyEnv ==
  [ANTHROPIC_API_KEY : KeyTexts, OPENAI_API_KEY : {Undefined}, OLLAMA_API_KEY : KeyTexts]

KeySaved ==
  { [provider |-> f.provider, ollamaMode |-> f.ollamaMode, model |-> Undefined, apiKey |-> k] :
      f \in KeyArgs, k \in KeyTexts }

InitKey == InitWith(KeyArgs, KeyEnv, KeySaved, BOOLEAN)

NextKey ==
  \/ ReadUserConfig
  \/ ResolveProvider
  \/ ResolveApiKey
  \/ KeyPromptAnswer
  \/ InputKey

SpecKey == InitKey /\ [][NextKey]_vars

\* ================================================================ claims
\* --------------------------------------------------------------- C1
\* C1 (as amended): in a run whose provider, credential and model
\* resolution all complete, the preference store is written (once) if and
\* only if the provider came from the picker, or the model came from a
\* prompt or menu, or no key was saved before and a key was obtained in this
\* run; in every other run, and before that point, writeUserConfig is not
\* called.
C1_PersistIff ==
  /\ calls.write <= 1
  /\ pc # "getDiff" => calls.write = 0
  /\ pc = "getDiff" =>
       (calls.write = 1 <=>
          \/ providerFromInteractive
          \/ modelFromInteractive
          \/ (~Truthy(savedConfig.apiKey) /\ apiKey # Undefined))

\* a completed resolution that wrote the store for the new credential alone
C1_Witness ==
  /\ pc = "getDiff"
  /\ calls.write = 1
  /\ ~providerFromInteractive
  /\ ~modelFromInteractive
  /\ written = Def(configToSave)

\* C1 as stated: whenever a run has ended its resolution phase, by
\* completing it or by exiting, the store was written if and only if one of
\* the three conditions holds.
C1_Original ==
  pc \in {"getDiff", "exited"} =>
    (calls.write = 1 <=>
       \/ providerFromInteractive
       \/ modelFromInteractive
       \/ (~Truthy(savedConfig.apiKey) /\ apiKey # Undefined))

\* --------------------------------------------------------------- C2
\* C2: once Escape or Ctrl+C has been pressed at a prompt (provider or model
\* menu, free-text input, accept/regenerate/edit prompt, edit dialog), the
\* run has exited with status 0 and runCommit has not been invoked.
C2_CancelExitsZero ==
  IsCancelKey(lastKey) => (pc = "exited" /\ exitCode = Def(0) /\ calls.commit = 0)

\* --------------------------------------------------------------- C3
\* C3 (as amended): when the run is invoked with --setup, without a provider
\* flag, without a non-empty credential environment variable and without
\* --model, both the provider and the model are obtained through the
\* interactive path (fromInteractive = true for both, the picker has been
\* shown), whatever the saved settings are.
C3_SetupInteractive ==
  ( /\ args.setup
    /\ args.provider = NoEnum
    /\ ~Truthy(env.ANTHROPIC_API_KEY)
    /\ ~Truthy(env.OPENAI_API_KEY)
    /\ ~Truthy(env.OLLAMA_API_KEY)
    /\ ~Truthy(args.model)
    /\ pc = "getDiff" )
  => (providerFromInteractive /\ modelFromInteractive /\ calls.select >= 1)

\* --setup with a complete saved Anthropic record, resolved to Anthropic again
C3_Witness ==
  /\ args.setup
  /\ args.provider = NoEnum
  /\ ~Truthy(env.ANTHROPIC_API_KEY)
  /\ ~Truthy(env.OPENAI_API_KEY)
  /\ ~Truthy(env.OLLAMA_API_KEY)
  /\ ~Truthy(args.model)
  /\ savedConfig.provider = "anthropic"
  /\ Truthy(savedConfig.model)
  /\ provider = "anthropic"
  /\ pc = "getDiff"
  /\ providerFromInteractive
  /\ modelFromInteractive

\* C3 as stated: with --setup, provider and model are both interactive.
C3_Original ==
  (args.setup /\ pc = "getDiff") => (providerFromInteractive /\ modelFromInteractive)

\* --------------------------------------------------------------- C4
\* C4: when a provider flag is given, the resolved provider and mode are the
\* flag's, fromInteractive is false and the provider picker is never shown,
\* for every environment, saved record and --setup.
C4_FlagWins ==
  args.provider # NoEnum =>
    /\ pc # "providerMenu"
    /\ pc = "resolveApiKey" => calls.select = 0
    /\ pc \notin {"start", "resolveProvider"} =>
         /\ provider = args.provider
         /\ ollamaMode = args.ollamaMode
         /\ ~providerFromInteractive

\* --cloud --setup with ANTHROPIC_API_KEY set and OpenAI saved
C4_Witness ==
  /\ args.provider = "ollama"
  /\ args.ollamaMode = "cloud"
  /\ args.setup
  /\ Truthy(env.ANTHROPIC_API_KEY)
  /\ savedConfig.provider = "openai"
  /\ pc = "resolveApiKey"
  /\ provider = "ollama"
  /\ ollamaMode = "cloud"

\* --------------------------------------------------------------- C5
\* C5: without a provider flag, if a credential environment variable is set
\* (non-empty), the provider is the first set one in the order
\* ANTHROPIC_API_KEY, OPENAI_API_KEY, OLLAMA_API_KEY (the last giving
\* ollama/cloud), chosen without the picker, whatever provider is saved.
C5_EnvOrder ==
  (args.provider = NoEnum /\ pc \notin {"start", "resolveProvider"}) =>
    /\ Truthy(env.ANTHROPIC_API_KEY) =>
         (provider = "anthropic" /\ ollamaMode = NoEnum /\ ~providerFromInteractive)
    /\ (~Truthy(env.ANTHROPIC_API_KEY) /\ Truthy(env.OPENAI_API_KEY)) =>
         (provider = "openai" /\ ollamaMode = NoEnum /\ ~providerFromInteractive)
    /\ ( /\ ~Truthy(env.ANTHROPIC_API_KEY)
         /\ ~Truthy(env.OPENAI_API_KEY)
         /\ Truthy(env.OLLAMA_API_KEY) ) =>
         (provider = "ollama" /\ ollamaMode = "cloud" /\ ~providerFromInteractive)

\* OPENAI_API_KEY and OLLAMA_API_KEY set, Anthropic saved: OpenAI is chosen
C5_Witness ==
  /\ args.provider = NoEnum
  /\ ~Truthy(env.ANTHROPIC_API_KEY)
  /\ Truthy(env.OPENAI_API_KEY)
  /\ Truthy(env.OLLAMA_API_KEY)
  /\ savedConfig.provider = "anthropic"
  /\ pc = "resolveApiKey"
  /\ provider = "openai"
  /\ calls.select = 0

\* --------------------------------------------------------------- C6
\* C6: in Presenting one keypress decides the next state: a/A or Enter leads
\* to Accepted, r/R to Regenerating, e/E to Editing, Escape or Ctrl+C to
\* Cancelled (exit 0).
C6_KeyDecides ==
  [][ pc = "presenting" =>
        /\ lastKey' \in {K("a"), K("A"), K("return")} => pc' = "accepted"
        /\ lastKey' \in {K("r"), K("R")} => pc' = "regenerating"
        /\ lastKey' \in {K("e"), K("E")} => pc' = "editing"
        /\ IsCancelKey(lastKey') => (pc' = "exited" /\ exitCode' = Def(0)) ]_vars

\* --------------------------------------------------------------- C7
\* C7: when runCommit returns a non-zero status, after accept or after edit,
\* the process exits with exactly that status; when it returns zero the run
\* ends without a process exit.
C7_ExitStatus ==
  /\ (commitStatus # Undefined /\ commitStatus[1] # 0) =>
       (pc = "exited" /\ exitCode = commitStatus)
  /\ commitStatus = Def(0) => (pc = "done" /\ exitCode = Undefined)

\* the commit of an edited message returned 128 and the process exited 128
C7_Witness ==
  /\ calls.edit = 1
  /\ commitStatus = Def(128)
  /\ exitCode = Def(128)
  /\ pc = "exited"

\* --------------------------------------------------------------- C8
\* C8: editMessage returns the trimmed edited text when it is non-blank, the
\* original message when the edit is empty or blank, and never an empty
\* commit message.
C8_EditResult ==
  pc = "edited" =>
    /\ Trim(submitted[1]) # <<>> => message = Trim(submitted[1])
    /\ Trim(submitted[1]) = <<>> => message = lastGen[1]
    /\ message # <<>>

\* --------------------------------------------------------------- C9
\* C9: when the user regenerates k times and then accepts, the generator has
\* been called exactly k+1 times and runCommit is invoked once, with the
\* result of the last generator call.
C9_RegenerateThenAccept ==
  /\ calls.commit <= 1
  /\ (calls.commit = 1 /\ calls.edit = 0) =>
       (calls.generate = calls.regenerate + 1 /\ commitArg = lastGen)

\* two regenerations, then accept: three generator calls, one commit
C9_Witness ==
  /\ calls.regenerate = 2
  /\ calls.generate = 3
  /\ calls.edit = 0
  /\ calls.commit = 1
  /\ commitArg = lastGen

\* -------------------------------------------------------------- C10
\* C10: when a provider call fails (the first one or a regeneration) the run
\* prints an error and exits with status 1, the generator is not called
\* again and runCommit is not invoked; a provider call after the first
\* happens only after a regenerate keypress.
C10_FailureEndsRun ==
  /\ [](calls.generate > calls.promptUser =>
          (pc = "exited" /\ exitCode = Def(1) /\ Len(errLines) >= 1 /\ calls.commit = 0))
  /\ [][ calls'.generate # calls.generate =>
           /\ calls.generate = calls.promptUser
           /\ calls.generate >= 1 =>
                (pc = "regenerating" /\ promptUser(lastKey) = "regenerate") ]_vars

\* a regeneration failed: two generator calls, one message presented
C10_Witness ==
  /\ calls.generate = 2
  /\ calls.promptUser = 1
  /\ calls.regenerate = 1
  /\ pc = "exited"
  /\ exitCode = Def(1)

\* -------------------------------------------------------------- C19
\* C19: resolveApiKey returns the environment key if it is present after
\* trimming, else the saved key after trimming, in both cases without a
\* prompt; the key it returns never has leading or trailing whitespace, and
\* applied to an already trimmed key it returns the same key.
C19_TrimmedKey ==
  LET ki == KeyInputs(provider, ollamaMode, env, savedConfig)
      e == IF ki.envKey = Undefined THEN <<>> ELSE Trim(ki.envKey[1])
      sv == IF ki.savedKey = Undefined THEN <<>> ELSE Trim(ki.savedKey[1])
  IN
  /\ (pc \notin {"start", "resolveProvider", "resolveApiKey"} /\ (e # <<>> \/ sv # <<>>)) =>
       /\ pc = "resolveModel"
       /\ calls.input = 0
       /\ apiKey = IF e # <<>> THEN Def(e) ELSE Def(sv)
  /\ apiKey # Undefined =>
       /\ apiKey[1] # <<>>
       /\ Head(apiKey[1]) # " "
       /\ apiKey[1][Len(apiKey[1])] # " "
       /\ resolveApiKey(apiKey, Undefined) = apiKey
       /\ resolveApiKey(Undefined, apiKey) = apiKey

\* a blank environment key and a padded saved key: the saved key, trimmed
C19_Witness ==
  /\ provider = "anthropic"
  /\ env.ANTHROPIC_API_KEY = Def(<<" ">>)
  /\ savedConfig.apiKey = Def(<<" ", "k">>)
  /\ pc = "resolveModel"
  /\ calls.input = 0
  /\ apiKey = Def(<<"k">>)

\* -------------------------------------------------------------- C20
\* C20: when neither the environment nor the saved settings supply a key,
\* resolveApiKey without a terminal prints an error naming the required
\* environment variable and exits with status 1 without prompting; with a
\* terminal it prompts once and exits with status 1 if the entry is empty.
\* It never returns an empty key.
C20_NoKey ==
  LET ki == KeyInputs(provider, ollamaMode, env, savedConfig)
      e == IF ki.envKey = Undefined THEN <<>> ELSE Trim(ki.envKey[1])
      sv == IF ki.savedKey = Undefined THEN <<>> ELSE Trim(ki.savedKey[1])
  IN
  /\ (pc \notin {"start", "resolveProvider", "resolveApiKey"} /\ e = <<>> /\ sv = <<>>) =>
       IF ~isTTY
         THEN /\ pc = "exited"
              /\ exitCode = Def(1)
              /\ calls.input = 0
              /\ Len(errLines) = 1
              /\ errLines[1].envVarName =
                   (IF provider = "anthropic" THEN "ANTHROPIC_API_KEY" ELSE "OLLAMA_API_KEY")
         ELSE /\ calls.input = 1
              /\ pc = "keyPrompt" => entered = Undefined
              /\ (pc # "keyPrompt" /\ Trim(entered[1]) = <<>>) =>
                   (pc = "exited" /\ exitCode = Def(1) /\ apiKey = Undefined)
              /\ (pc # "keyPrompt" /\ Trim(entered[1]) # <<>>) =>
                   (pc = "resolveModel" /\ apiKey = Def(Trim(entered[1])))
  /\ pc = "resolveModel" => (apiKey # Undefined /\ apiKey[1] # <<>>)

\* on a terminal, with no key anywhere, a blank entry ended the run with 1
C20_Witness ==
  /\ isTTY
  /\ env.OLLAMA_API_KEY = Def(<<" ">>)
  /\ provider = "ollama"
  /\ ollamaMode = "cloud"
  /\ savedConfig.provider = "anthropic"
  /\ savedConfig.apiKey = Def(<<"k">>)
  /\ entered = Def(<<" ">>)
  /\ calls.input = 1
  /\ pc = "exited"
  /\ exitCode = Def(1)

\* -------------------------------------------------------------- C11
\* C11: once the user has chosen edit and the edit dialog has returned, the
\* edited text is committed at once: runCommit is invoked exactly once, with
\* editMessage's result, and promptUser is not called again in that run.
C11_EditCommits ==
  /\ []( (submitted # Undefined /\ pc # "edited") =>
           /\ calls.commit = 1
           /\ commitArg = Def(IF Trim(submitted[1]) # <<>>
                                THEN Trim(submitted[1])
                                ELSE lastGen[1]) )
  /\ [](calls.edit >= 1 => calls.commit <= 1)
  /\ [][ calls.edit >= 1 => calls'.promptUser = calls.promptUser ]_vars
  /\ [][ pc = "edited" => calls'.commit = calls.commit + 1 ]_vars

\* a regenerated message was edited to "c " and "c" was committed
C11_Witness ==
  /\ calls.edit = 1
  /\ calls.regenerate = 1
  /\ submitted = Def(<<"c", " ">>)
  /\ calls.commit = 1
  /\ commitArg = Def(<<"c">>)
  /\ calls.promptUser = 2
  /\ pc = "done"

\* -------------------------------------------------------------- C12
\* C12: after a run, the provider, the mode and the model held in the
\* preference store are each either what the store held before the run or a
\* value the user chose at a prompt during this run; values that came from a
\* flag or an environment variable are not stored.
C12_OneOff ==
  pc \in {"getDiff", "exited"} =>
    /\ \/ store.provider = savedConfig.provider
       \/ (providerFromInteractive /\ store.provider = provider)
    /\ \/ store.ollamaMode = savedConfig.ollamaMode
       \/ (providerFromInteractive /\ store.ollamaMode = ollamaMode)
       \/ (store.provider # "ollama" /\ store.ollamaMode = NoEnum)
    /\ \/ store.model = savedConfig.model
       \/ (modelFromInteractive /\ store.model = model)

\* -------------------------------------------------------------- C13
\* C13: whenever the credential used in a run was typed at the API-key
\* prompt (neither the environment nor the saved settings supplied it) and
\* resolution completed, the run has written the preference store and the
\* written record contains that credential.
C13_TypedKeySaved ==
  LET ki == KeyInputs(provider, ollamaMode, env, savedConfig) IN
  ( /\ pc = "getDiff"
    /\ apiKey # Undefined
    /\ resolveApiKey(ki.envKey, ki.savedKey) = Undefined )
  => (calls.write = 1 /\ written # Undefined /\ written[1].apiKey = apiKey)

\* -------------------------------------------------------------- C14
\* C14 (as amended): in Ollama local-mode model resolution with a non-empty
\* inventory and no --model flag, whenever the saved model is absent from
\* the inventory and the provider was not given by a CLI flag (or --setup
\* was requested), the model picker is shown exactly once in that run.
C14_PickerOnce ==
  ( /\ provider = "ollama"
    /\ ollamaMode \in {"local", NoEnum}
    /\ ~Truthy(args.model)
    /\ models # Undefined
    /\ models[1] # <<>>
    /\ ~( /\ Truthy(savedConfig.model)
          /\ savedConfig.model[1] \in {models[1][i] : i \in 1..Len(models[1])} )
    /\ (args.provider = NoEnum \/ args.setup) )
  => calls.select = (IF providerFromInteractive THEN 2 ELSE 1)

\* saved local model "z" is not installed, no flag: the model menu is open
C14_Witness ==
  /\ args.provider = NoEnum
  /\ ~args.setup
  /\ savedConfig.provider = "ollama"
  /\ savedConfig.ollamaMode = "local"
  /\ savedConfig.model = Def(<<"z">>)
  /\ models = Def(<< <<"q">>, <<"p">> >>)
  /\ ~providerFromInteractive
  /\ calls.select = 1
  /\ pc = "getDiff"
  /\ model = Def(<<"p">>)
  /\ modelFromInteractive

\* C14 as stated: the picker is shown exactly once whenever the saved model
\* is absent from the inventory.
C14_Original ==
  ( /\ provider = "ollama"
    /\ ollamaMode \in {"local", NoEnum}
    /\ ~Truthy(args.model)
    /\ models # Undefined
    /\ models[1] # <<>>
    /\ Truthy(savedConfig.model)
    /\ savedConfig.model[1] \notin {models[1][i] : i \in 1..Len(models[1])} )
  => calls.select = (IF providerFromInteractive THEN 2 ELSE 1)

\* -------------------------------------------------------------- C15
\* C15: in Ollama local mode with no --model flag, no --setup and a
\* non-empty inventory: if the saved (ollama/local) model is in the
\* inventory it is the model, chosen without a prompt; otherwise, if the
\* provider came from a CLI flag, the first model of the inventory is the
\* model, chosen without a prompt; in both cases fromInteractive is false.
C15_SilentLocalModel ==
  ( /\ provider = "ollama"
    /\ ollamaMode \in {"local", NoEnum}
    /\ ~Truthy(args.model)
    /\ ~args.setup
    /\ models # Undefined
    /\ models[1] # <<>> )
  => IF /\ savedConfig.provider = "ollama"
        /\ savedConfig.ollamaMode = "local"
        /\ Truthy(savedConfig.model)
        /\ savedConfig.model[1] \in {models[1][i] : i \in 1..Len(models[1])}
       THEN /\ pc \in {"persist", "getDiff"}
            /\ model = savedConfig.model
            /\ ~modelFromInteractive
            /\ calls.select = (IF providerFromInteractive THEN 1 ELSE 0)
       ELSE args.provider # NoEnum =>
              /\ pc \in {"persist", "getDiff"}
              /\ model = Def(models[1][1])
              /\ ~modelFromInteractive
              /\ calls.select = 0

\* --local with saved model "z" not installed: the first of <<q, p>> is used
C15_Witness ==
  /\ args.provider = "ollama"
  /\ args.ollamaMode = "local"
  /\ ~args.setup
  /\ ~Truthy(args.model)
  /\ savedConfig.model = Def(<<"z">>)
  /\ models = Def(<< <<"q">>, <<"p">> >>)
  /\ model = Def(<<"q">>)
  /\ ~modelFromInteractive
  /\ calls.select = 0
  /\ pc = "getDiff"

\* -------------------------------------------------------------- C16
\* C16: in Ollama local mode without --model, an empty inventory makes model
\* resolution fail with an error whose message carries the install hint;
\* the inventory has been queried exactly once, no model picker is shown,
\* the run exits with status 1, the preference store is not written and the
\* generator is not called.
C16_EmptyInventory ==
  models = Def(<<>>) =>
    /\ pc = "exited"
    /\ exitCode = Def(1)
    /\ errLines = << Err("No local models found. Install one with: ollama pull llama3.2", "") >>
    /\ calls.inventory = 1
    /\ calls.select = (IF providerFromInteractive THEN 1 ELSE 0)
    /\ calls.write = 0
    /\ store = savedConfig
    /\ calls.generate = 0
    /\ model = Undefined

\* the provider was picked at the menu, then the inventory came back empty
C16_Witness ==
  /\ models = Def(<<>>)
  /\ providerFromInteractive
  /\ provider = "ollama"
  /\ ollamaMode = "local"
  /\ calls.inventory = 1
  /\ pc = "exited"
  /\ exitCode = Def(1)
  /\ calls.write = 0

\* -------------------------------------------------------------- C17
\* C17: in Ollama cloud mode the model is the --model flag if given; else
\* the saved model, used without a prompt, only if the saved mode is cloud
\* and --setup was not requested; else the text entered at the model prompt,
\* an empty entry giving the default cloud model, with fromInteractive true.
C17_CloudModel ==
  (provider = "ollama" /\ ollamaMode = "cloud") =>
    /\ pc = "cloudPrompt" =>
         /\ ~Truthy(args.model)
         /\ ~(savedConfig.ollamaMode = "cloud" /\ Truthy(savedConfig.model) /\ ~args.setup)
    /\ pc \in {"persist", "getDiff"} =>
         IF Truthy(args.model)
           THEN model = args.model /\ ~modelFromInteractive
         ELSE IF savedConfig.ollamaMode = "cloud" /\ Truthy(savedConfig.model) /\ ~args.setup
           THEN model = savedConfig.model /\ ~modelFromInteractive
         ELSE /\ modelFromInteractive
              /\ entered # Undefined
              /\ model = Def(IF Trim(entered[1]) = <<>>
                               THEN DEFAULT_CLOUD_MODEL
                               ELSE Trim(entered[1]))

\* a model is saved for local mode; the cloud prompt was answered with a
\* blank and the default cloud model was taken
C17_Witness ==
  /\ provider = "ollama"
  /\ ollamaMode = "cloud"
  /\ ~Truthy(args.model)
  /\ ~args.setup
  /\ savedConfig.ollamaMode = "local"
  /\ Truthy(savedConfig.model)
  /\ entered = Def(<<" ">>)
  /\ model = Def(DEFAULT_CLOUD_MODEL)
  /\ modelFromInteractive
  /\ pc = "getDiff"

C24_ReadSafe ==
  pc # "start" =>
    /\ savedConfig # NullConfig
    /\ (file # "object" /\ calls.write = 0 => savedConfig = EmptyConfig)
    /\ \A i \in 1..Len(errLines) :
         errLines[i].text \notin {"Cannot read properties of null",
                                  "TypeError: Cannot read properties of null",
                                  "Fatal error: Cannot read properties of null"}

\* C25: for each provider and whatever the transport does (connection
\* failure, non-success status, success status with any body), the provider
\* call either returns a trimmed string or fails with that provider's own
\* error type: what a failed call leaves on the error stream is one of the
\* provider's own messages, and a returned message equals its own trim.
C25_OwnError ==
  /\ lastGen # Undefined => lastGen[1] = Trim(lastGen[1])
  /\ (pc = "exited" /\ calls.generate > calls.promptUser) =>
       errLines[Len(errLines)].text \in
         (IF provider = "anthropic"
            THEN {"Could not connect to Anthropic API", "Anthropic API error",
                  "Unexpected response from Anthropic API: missing content"}
          ELSE IF provider = "openai"
            THEN {"Could not connect to OpenAI API", "OpenAI API error",
                  "Unexpected response from OpenAI API: missing content"}
          ELSE {"Could not connect to Ollama", "Ollama returned an error",
                "Unexpected response from Ollama: missing message.content"})

C23_ReadOnceWriteOnce ==
  /\ [](calls.read = (IF pc = "start" THEN 0 ELSE 1))
  /\ [](calls.write <= 1)
  /\ [][calls'.read # calls.read =>
          pc = "start" /\ provider = NoEnum /\ calls.select = 0]_vars
  /\ [][calls'.write # calls.write =>
          /\ pc = "persist"
          /\ calls.diff = 0 /\ calls.generate = 0 /\ calls.promptUser = 0
          /\ calls.edit = 0 /\ calls.commit = 0]_vars

\* a run that read once, wrote once and then went into the interaction loop
C23_Witness ==
  /\ calls.read = 1
  /\ calls.write = 1
  /\ calls.promptUser >= 1
  /\ calls.regenerate >= 1

C27_OtherKeysIgnored ==
  [][ pc = "presenting" =>
        /\ lastKey' = K("A") => pc' = "accepted"
        /\ lastKey' = K("R") => pc' = "regenerating"
        /\ lastKey' = K("E") => pc' = "editing"
        /\ lastKey' \notin {K("a"), K("A"), K("r"), K("R"), K("e"), K("E"),
                            K("return"), K("escape"), CtrlC} =>
             UNCHANGED << pc, message, lastGen, submitted, calls, commitArg,
                          commitStatus, exitCode, errLines, store >> ]_vars

\* the key z was pressed at the prompt and the prompt is still open
C27_Witness ==
  /\ pc = "presenting"
  /\ lastKey = K("z")
  /\ calls.promptUser = 1
  /\ calls.generate = 1
  /\ calls.commit = 0

\* C28: for every argument list parseArgs accepts, every environment and
\* every saved record this program wrote, the provider resolution result has
\* ollamaMode defined only when its provider is ollama.
C28_ModeOnlyForOllama ==
  (provider # NoEnum /\ ollamaMode # NoEnum) => provider = "ollama"

\* C29: a result reported as interactive carries a value the user supplied
\* at a prompt in this run. Without a terminal a list selection is not a user
\* choice (the first item is taken), so then the provider is never reported
\* as interactive, a model is reported as interactive only when it was typed
\* at a free-text prompt, and preferences are written only for a typed model
\* or a new credential.
C29_PromptedOnly ==
  ~isTTY =>
    /\ ~providerFromInteractive
    /\ modelFromInteractive => entered # Undefined
    /\ calls.write = 1 =>
         \/ (modelFromInteractive /\ entered # Undefined)
         \/ (apiKey # Undefined /\ ~Truthy(savedConfig.apiKey))

\* C30: every record written to the preference store contains provider and
\* model, contains ollamaMode exactly when its provider is ollama, contains
\* apiKey exactly when a credential was resolved in this run, and replaces
\* the previous record as a whole.
C30_WrittenRecord ==
  written # Undefined =>
    /\ written[1].provider # NoEnum
    /\ written[1].model # Undefined
    /\ (written[1].ollamaMode # NoEnum <=> written[1].provider = "ollama")
    /\ (written[1].apiKey # Undefined <=> apiKey # Undefined)
    /\ store = written[1]

\* C31: at an open menu of n >= 1 items the selected index stays within
\* 0..n-1 and equals (downs minus ups) modulo n after any sequence of up and
\* down keypresses; Enter returns the value of the item selected at that
\* moment; an unrecognised or null key leaves the selection unchanged.
C31_Navigation ==
  /\ [](pc \in {"providerMenu", "hostedMenu", "localMenu"} =>
          /\ Len(menu) >= 1
          /\ selected \in 0 .. Len(menu) - 1
          /\ selected = (moves.down - moves.up) % Len(menu))
  /\ [][(pc \in {"providerMenu", "hostedMenu", "localMenu"}) =>
          /\ lastKey' = K("return") =>
               (LET chosen == menu[selected + 1] IN
                  IF pc = "providerMenu"
                    THEN /\ provider' = PickerResult(chosen).provider
                         /\ ollamaMode' = PickerResult(chosen).ollamaMode
                  ELSE IF pc = "hostedMenu"
                          /\ chosen \in {ANTHROPIC_CUSTOM_MODEL, OPENAI_CUSTOM_MODEL}
                    THEN pc' = "customPrompt"
                  ELSE model' = Def(chosen))
          /\ lastKey' \in {K("z"), NullKey} =>
               (UNCHANGED << pc, menu, selected, moves, provider, model >>) ]_vars

\* two ups from the first of the four provider items: the third is selected
C31_Witness ==
  /\ pc = "providerMenu"
  /\ moves = [up |-> 2, down |-> 0]
  /\ selected = 2

\* C32: whenever no menu and no accept/regenerate/edit prompt is open (a
\* choice was made, or the prompt was cancelled and the process has exited)
\* the keypress listener of the prompt is removed, raw mode is off and stdin
\* is paused; while one is open exactly its own listener is installed.
C32_Restored ==
  /\ pc \notin {"providerMenu", "hostedMenu", "localMenu", "presenting"} =>
       (term.listener = "none" /\ ~term.raw /\ term.paused)
  /\ pc \in {"providerMenu", "hostedMenu", "localMenu"} =>
       term.listener = "selectFromList"
  /\ pc = "presenting" => term.listener = "promptUser"

\* after a menu pick on a terminal, the prompt was cancelled: all restored
C32_Witness ==
  /\ isTTY
  /\ calls.select >= 1
  /\ calls.promptUser >= 1
  /\ IsCancelKey(lastKey)
  /\ pc = "exited"
  /\ exitCode = Def(0)
  /\ term = TermIdle

\* C33: in every run the commit collaborator is invoked at most once, and
\* only after a provider call that succeeded; it is not invoked in a run that
\* ends by cancellation (exit 0) or with an error line from resolution, the
\* staged-diff step or a provider call.
C33_CommitOnce ==
  /\ calls.commit <= 1
  /\ calls.commit = 1 => (lastGen # Undefined /\ calls.promptUser >= 1)
  /\ (pc = "exited" /\ exitCode = Def(0)) => calls.commit = 0
  /\ (Len(errLines) >= 1 /\ errLines[1].text # "Fatal error: Failed to run git commit")
       => calls.commit = 0

\* one commit, made after a regeneration, ended the run
C33_Witness ==
  /\ calls.commit = 1
  /\ calls.generate = 2
  /\ calls.regenerate = 1
  /\ commitStatus = Def(0)
  /\ pc = "done"

\* C34: the commit collaborator is never invoked with an empty or
\* all-whitespace message, whatever text the provider returned and whatever
\* the user typed in the edit dialog.
C34_NonBlankCommit ==
  commitArg # Undefined => Trim(commitArg[1]) # <<>>

\* C35: over a sequence of runs in which only this program writes the
\* preference file, a saved key is passed to credential resolution only for
\* the provider/mode it was saved under: the record it is taken from names
\* the provider of the current run, and for Ollama the cloud mode.
C35_KeyStaysWithProvider ==
  LET ki == KeyInputs(provider, ollamaMode, env, savedConfig) IN
  (/\ pc \notin {"start", "resolveProvider", "providerMenu"}
   /\ provider # NoEnum
   /\ RequiresApiKey(provider, ollamaMode)
   /\ ki.savedKey # Undefined) =>
     /\ savedConfig.provider = provider
     /\ provider = "ollama" => (savedConfig.ollamaMode = "cloud" /\ ollamaMode = "cloud")

\* an earlier run saved a typed Ollama Cloud key; this run is Anthropic and
\* took its key from the environment
C35_Witness ==
  /\ written = Undefined
  /\ savedConfig.provider = "ollama"
  /\ savedConfig.ollamaMode = "cloud"
  /\ savedConfig.apiKey = Def(<<"t">>)
  /\ provider = "anthropic"
  /\ apiKey = Def(<<"e">>)

\* C36: when no provider flag is given and a credential environment variable
\* selected the provider, the credential the run ends up with is the trimmed
\* value of that same variable, never a saved key and never a typed key.
C36_EnvKeyUsed ==
  (args.provider = NoEnum /\ pc \in {"persist", "getDiff"}) =>
    /\ Truthy(env.ANTHROPIC_API_KEY) =>
         (apiKey = Def(Trim(env.ANTHROPIC_API_KEY[1])) /\ calls.input = 0)
    /\ (~Truthy(env.ANTHROPIC_API_KEY) /\ ~Truthy(env.OPENAI_API_KEY)
          /\ Truthy(env.OLLAMA_API_KEY)) =>
         apiKey = Def(Trim(env.OLLAMA_API_KEY[1]))

\* C37: in Ollama local mode without a --model flag, the model the model step
\* returns (saved model, first model picked silently, or menu choice) is one
\* of the models the inventory query of this run returned.
C37_ModelInInventory ==
  (/\ model # Undefined
   /\ ~Truthy(args.model)
   /\ provider = "ollama"
   /\ ollamaMode \in {NoEnum, "local"}) =>
     /\ models # Undefined
     /\ model[1] \in { models[1][i] : i \in 1 .. Len(models[1]) }

\* the second of two installed models was chosen at the menu
C37_Witness ==
  /\ provider = "ollama"
  /\ ollamaMode = "local"
  /\ ~Truthy(args.model)
  /\ models = Def(<< <<"q">>, <<"p">> >>)
  /\ modelFromInteractive
  /\ model = Def(<<"p">>)
  /\ savedConfig.model # Def(<<"p">>)

\* C38: when a run ends during resolution, by Escape or Ctrl+C at the
\* provider menu or a model menu or by a resolution error, writeUserConfig
\* was not called in it and the preference store is as it was read.
C38_NoWriteOnAbort ==
  (pc = "exited" /\ calls.diff = 0) =>
    /\ calls.write = 0
    /\ written = Undefined
    /\ store = savedConfig

\* the provider was picked at its menu and the model menu was cancelled
C38_Witness ==
  /\ pc = "exited"
  /\ exitCode = Def(0)
  /\ providerFromInteractive
  /\ calls.select = 2
  /\ model = Undefined
  /\ IsCancelKey(lastKey)
  /\ store = savedConfig

\* C39: a run writes its preferences after model resolution and before the
\* staged diff is read or a provider is called; what it wrote stays in the
\* store whatever happens later in the run (empty diff, provider error,
\* cancellation at the prompt, failed commit).
C39_WriteStays ==
  /\ [][calls'.write # calls.write =>
          /\ model # Undefined
          /\ calls.diff = 0
          /\ calls.generate = 0
          /\ store' = configToSave]_vars
  /\ [](written # Undefined => (store = written[1] /\ file = "object"))

\* preferences were written and the run then ended on an empty staged diff
C39_Witness ==
  /\ written # Undefined
  /\ calls.write = 1
  /\ pc = "exited"
  /\ exitCode = Def(1)
  /\ errLines = << Err("No staged changes found.", "") >>
  /\ store = written[1]
  /\ store # savedConfig

\* C40: when every collaborator call returns, every run reaches a terminal
\* outcome: the commit was attempted, the run was cancelled with exit 0, or
\* it ended with an error exit; short of regenerating without end (bounded
\* here by MaxRegen) no run goes on forever.
C40_Terminates ==
  /\ <>(pc \in {"done", "exited"})
  /\ [](pc = "done" => (calls.commit = 1 /\ commitStatus = Def(0)))
  /\ [](pc = "exited" =>
          \/ exitCode = Def(0)
          \/ calls.commit = 1
          \/ (exitCode = Def(1) /\ Len(errLines) = 1))

\* the run regenerated as often as the bound allows and then committed
C40_Witness ==
  /\ pc = "done"
  /\ calls.regenerate = MaxRegen
  /\ calls.generate = MaxRegen + 1
  /\ calls.commit = 1

====
